---- MODULE Spec2Model ----
(***************************************************************************)
(* Notepad automation bot.  Two implementations live in the repository:    *)
(*   - src/main.py                the single-file script (OpenCV matcher)  *)
(*   - src/src/icon_detector.py,  the package (botcity matcher with a      *)
(*     src/src/notepad.py         coordinate cache)                        *)
(* Operators and actions modelled from the package keep the source names;  *)
(* where the script has a function of the same name, the script's version  *)
(* carries the suffix _main.                                               *)
(***************************************************************************)
EXTENDS Integers, Sequences, FiniteSets, TLC

VARIABLES
    templates,    \* the loaded templates / registered labels, in examination order
    screen,       \* dimensions of the screen capture
    mres,         \* what find_icon_with_multiple_templates last did (main.py)
    fres,         \* what find_icon last did (icon_detector.py)
    icon_cache,   \* icon_detector.icon_cache
    cacheOps,     \* the set_cache / invalidate_cache calls made so far, oldest first
    windows,      \* the desktop's top-level windows, in enumeration order
    listed,       \* last answer of notepad.get_notepad_windows
    listed_main,  \* last answer of main.get_notepad_windows
    call,         \* the function being run ("": none)
    pc,           \* where the running function is
    attempt,      \* its retry counter
    polls,        \* iterations of its current polling loop
    coords,       \* its local coords / icon_coords
    result,       \* the last return value
    todo,         \* the window handles its for loop has still to visit
    stack,        \* the callers: where each resumes, innermost first
    log,          \* what the program did so far, oldest first
    posts,        \* main: the posts its loop has still to process
    post,         \* the post being processed or written
    clipboard,    \* the system clipboard (pyperclip)
    doc,          \* the text of the editor's current document
    field,        \* the text of the file-name field of the Save As dialog
    files         \* the files on disk: path |-> content

matchVars == <<templates, screen, mres, fres>>
cacheVars == <<icon_cache, cacheOps>>
winVars   == <<windows, listed, listed_main>>
runVars   == <<call, pc, attempt, polls, coords, result, todo, stack, log>>
ioVars    == <<posts, post, clipboard, doc, field, files>>
editorVars == <<windows, clipboard, doc, field, files>>
vars == <<templates, screen, mres, fres, icon_cache, cacheOps,
          windows, listed, listed_main,
          call, pc, attempt, polls, coords, result, todo, stack, log,
          posts, post, clipboard, doc, field, files>>

\* Python's None; coordinates are pairs <<x, y>>, so None is the empty tuple.
None == <<>>

\* No post is at hand, nothing was copied or typed, the output directory is
\* empty.
NoIO ==
    /\ posts = <<>>
    /\ post = None
    /\ clipboard = None
    /\ doc = [text |-> <<>>, sel |-> FALSE]
    /\ field = [text |-> <<>>, sel |-> FALSE]
    /\ files = <<>>

-----------------------------------------------------------------------------
(* Strings: window titles are sequences of characters.                     *)

LowerOf == [c \in {"A", "B", "C", "D", "E", "F", "G", "H", "I", "J", "K", "L", "M",
                   "N", "O", "P", "Q", "R", "S", "T", "U", "V", "W", "X", "Y", "Z"} |->
  CASE c = "A" -> "a" [] c = "B" -> "b" [] c = "C" -> "c" [] c = "D" -> "d"
    [] c = "E" -> "e" [] c = "F" -> "f" [] c = "G" -> "g" [] c = "H" -> "h"
    [] c = "I" -> "i" [] c = "J" -> "j" [] c = "K" -> "k" [] c = "L" -> "l"
    [] c = "M" -> "m" [] c = "N" -> "n" [] c = "O" -> "o" [] c = "P" -> "p"
    [] c = "Q" -> "q" [] c = "R" -> "r" [] c = "S" -> "s" [] c = "T" -> "t"
    [] c = "U" -> "u" [] c = "V" -> "v" [] c = "W" -> "w" [] c = "X" -> "x"
    [] c = "Y" -> "y" [] c = "Z" -> "z"]

\* str.lower()
lower(s) == [i \in 1..Len(s) |-> IF s[i] \in DOMAIN LowerOf THEN LowerOf[s[i]] ELSE s[i]]

\* `sub in s`
contains(s, sub) ==
    \E i \in 1..(Len(s) - Len(sub) + 1) : SubSeq(s, i, i + Len(sub) - 1) = sub

\* s.endswith(suf)
endswith(s, suf) ==
    /\ Len(s) >= Len(suf)
    /\ SubSeq(s, Len(s) - Len(suf) + 1, Len(s)) = suf

T_Notepad == <<"N", "o", "t", "e", "p", "a", "d">>
T_Untitled == <<"U", "n", "t", "i", "t", "l", "e", "d", " ", "-", " ", "N", "o", "t", "e", "p", "a", "d">>
T_NppEditor == <<"N", "o", "t", "e", "p", "a", "d", "+", "+", " ", "E", "d", "i", "t", "o", "r">>
T_MyNotes == <<"M", "y", " ", "N", "o", "t", "e", "p", "a", "d", " ", "n", "o", "t", "e", "s">>
T_CodeFile == <<"c", "o", "d", "e", " ", "-", " ", "N", "o", "t", "e", "p", "a", "d">>
T_Cursor == <<"C", "u", "r", "s", "o", "r">>
T_SaveAs == <<"S", "a", "v", "e", " ", "A", "s">>
T_ConfirmSaveAs == <<"C", "o", "n", "f", "i", "r", "m", " ", "S", "a", "v", "e", " ", "A", "s">>

S_notepad == <<"n", "o", "t", "e", "p", "a", "d">>
S_dash_notepad == <<" ", "-", " ", "n", "o", "t", "e", "p", "a", "d">>
S_cursor == <<"c", "u", "r", "s", "o", "r">>
S_code == <<"c", "o", "d", "e">>
S_editor == <<"e", "d", "i", "t", "o", "r">>

\* The impostor substrings main.get_notepad_windows is configured with.
Impostors == {S_cursor, S_code, S_editor}

-----------------------------------------------------------------------------
(* Window State Tracker                                                    *)

\* pygetwindow.getWindowsWithTitle: the windows whose title contains the
\* given text, compared without regard to case, in enumeration order.
getWindowsWithTitle(ws, text) ==
    SelectSeq(ws, LAMBDA w : contains(lower(w.title), lower(text)))

\* notepad.get_notepad_windows: the title test of the package.
IsNotepadTitle(t) ==
    LET title == lower(t)
    IN  title = S_notepad \/ endswith(title, S_dash_notepad)

get_notepad_windows(ws) ==
    SelectSeq(getWindowsWithTitle(ws, T_Notepad), LAMBDA w : IsNotepadTitle(w.title))

\* main.get_notepad_windows: the title test of the script.
IsNotepadTitle_main(t) ==
    LET title == lower(t)
    IN  /\ \/ title = S_notepad
           \/ endswith(title, S_dash_notepad)
           \/ contains(title, S_notepad)
        /\ ~contains(title, S_cursor)
        /\ ~contains(title, S_code)
        /\ ~contains(title, S_editor)

get_notepad_windows_main(ws) ==
    SelectSeq(getWindowsWithTitle(ws, T_Notepad), LAMBDA w : IsNotepadTitle_main(w.title))

\* any(win.visible for win in ws)
AnyListed(ws) == Len(ws) > 0
AnyVisible(ws) == \E i \in 1..Len(ws) : ws[i].visible

-----------------------------------------------------------------------------
(* Icon Matcher                                                            *)

MATCH_THRESHOLD == 80       \* main.py; confidences are in hundredths
MATCHING_THRESHOLD == 80    \* config.MATCHING_THRESHOLD of the package

\* A loaded template: the array's height and width, its number of channels
\* (0: a two-dimensional array, as cv2.imread gives for a single-channel
\* image), and what matching it against the current screen yields: the best
\* score and where.
TemplateDims == {<<3, 3>>, <<5, 3>>, <<3, 5>>}        \* <<w, h>>
TemplateScores == {0, 75, 85, 92}
TemplateLocs == {<<0, 1>>, <<1, 0>>}
TemplateChannels == {0, 3, 4}
Templates ==
    [w : {d[1] : d \in TemplateDims}, h : {d[2] : d \in TemplateDims},
     ch : TemplateChannels, score : TemplateScores, loc : TemplateLocs]
TemplatePool == {t \in Templates : <<t.w, t.h>> \in TemplateDims}

Screens == {[w |-> 4, h |-> 4], [w |-> 6, h |-> 4]}

MaxTemplates == 2

SeqsUpTo(S, n) == UNION {[1..k -> S] : k \in 0..n}

\* (loc_x + w // 2, loc_y + h // 2)
Centre(t) == <<t.loc[1] + t.w \div 2, t.loc[2] + t.h \div 2>>

TooBig(t, scr) == t.h > scr.h \/ t.w > scr.w

NoMatch == [score |-> 0, at |-> None, idx |-> 0, matched |-> {}, raisedAt |-> 0]

\* One iteration of the loop over the templates (main.py lines 57-85): best
\* carries best_match_score, the centre computed from best_match_loc and
\* best_match_dims, the index best_template_name stands for, the set of
\* templates handed to cv2.matchTemplate and the template that raised.
MatchOne(best, t, i, scr) ==
    IF best.raisedAt # 0 THEN best
    ELSE IF t.ch = 0 THEN [best EXCEPT !.raisedAt = i]      \* template.shape[2]: IndexError
    ELSE IF TooBig(t, scr) THEN best                        \* continue
    ELSE IF t.score > best.score
         THEN [best EXCEPT !.score = t.score, !.at = Centre(t), !.idx = i,
                           !.matched = @ \cup {i}]
         ELSE [best EXCEPT !.matched = @ \cup {i}]

RECURSIVE MatchAll(_, _, _)
MatchAll(ts, n, scr) ==
    IF n = 0 THEN NoMatch ELSE MatchOne(MatchAll(ts, n - 1, scr), ts[n], n, scr)

\* main.find_icon_with_multiple_templates
find_icon_with_multiple_templates(ts, scr) ==
    LET best == MatchAll(ts, Len(ts), scr)
    IN  [called   |-> TRUE,
         raised   |-> best.raisedAt # 0,
         raisedAt |-> best.raisedAt,
         matched  |-> best.matched,
         idx      |-> IF best.raisedAt = 0 /\ best.score >= MATCH_THRESHOLD
                      THEN best.idx ELSE 0,
         coords   |-> IF best.raisedAt = 0 /\ best.score >= MATCH_THRESHOLD
                      THEN best.at ELSE None]

NotCalled == [called |-> FALSE]


\* icon_detector.set_cache / invalidate_cache: the new value of the global
\* icon_cache, given its old value.
set_cache_local(cache, xy) == cache
set_cache(cache, xy) == xy

invalidate_cache_local(cache) == cache
invalidate_cache(cache) == None

\* thresholds = [MATCHING_THRESHOLD, MATCHING_THRESHOLD - 0.1]
thresholds == <<MATCHING_THRESHOLD, MATCHING_THRESHOLD - 10>>

\* bot.find(label, matching=threshold): the label's best score on the screen
\* reaches the threshold.
BotFind(t, threshold) == t.score >= threshold

\* bot.get_element_coords(label, matching=threshold): the point botcity
\* reports for the element, taken to be the point to click.
ElementCoords(t) == Centre(t)

\* The first label of one pass over template_labels for which bot.find
\* succeeds and get_element_coords gives coordinates (gone: the labels whose
\* element is no longer there when the coordinates are asked for); 0 if none.
FirstFound(ts, threshold, gone) ==
    LET hits == {i \in 1..Len(ts) : BotFind(ts[i], threshold) /\ i \notin gone}
    IN  IF hits = {} THEN 0 ELSE CHOOSE i \in hits : \A j \in hits : i <= j

find_icon_AlwaysCached(cache, ts, use_cache, click, gone) ==
    IF cache # None
    THEN [called |-> TRUE, use_cache |-> use_cache, coords |-> cache, cache |-> cache,
          clicked |-> IF click THEN cache ELSE None,
          searched |-> FALSE, idx |-> 0, threshold |-> 0]
    ELSE LET i1 == FirstFound(ts, thresholds[1], gone)
             i2 == FirstFound(ts, thresholds[2], gone)
             i  == IF i1 # 0 THEN i1 ELSE i2
             th == IF i1 # 0 THEN thresholds[1] ELSE thresholds[2]
         IN  IF i # 0
             THEN [called |-> TRUE, use_cache |-> use_cache,
                   coords |-> ElementCoords(ts[i]),
                   cache |-> set_cache(cache, ElementCoords(ts[i])),
                   clicked |-> IF click THEN ElementCoords(ts[i]) ELSE None,
                   searched |-> TRUE, idx |-> i, threshold |-> th]
             ELSE [called |-> TRUE, use_cache |-> use_cache, coords |-> None,
                   cache |-> cache, clicked |-> None,
                   searched |-> TRUE, idx |-> 0, threshold |-> 0]

\* icon_detector.find_icon.  The answer records the returned coordinates, the
\* new icon_cache, the point double-clicked (None: no click), whether the
\* templates were searched, and the label and threshold of the accepted match.
find_icon(cache, ts, use_cache, click, gone) ==
    IF use_cache /\ cache # None
    THEN [called |-> TRUE, use_cache |-> use_cache, coords |-> cache, cache |-> cache,
          clicked |-> IF click THEN cache ELSE None,
          searched |-> FALSE, idx |-> 0, threshold |-> 0]
    ELSE LET i1 == FirstFound(ts, thresholds[1], gone)
             i2 == FirstFound(ts, thresholds[2], gone)
             i  == IF i1 # 0 THEN i1 ELSE i2
             th == IF i1 # 0 THEN thresholds[1] ELSE thresholds[2]
         IN  IF i # 0
             THEN [called |-> TRUE, use_cache |-> use_cache,
                   coords |-> ElementCoords(ts[i]),
                   cache |-> set_cache(cache, ElementCoords(ts[i])),
                   clicked |-> IF click THEN ElementCoords(ts[i]) ELSE None,
                   searched |-> TRUE, idx |-> i, threshold |-> th]
             ELSE [called |-> TRUE, use_cache |-> use_cache, coords |-> None,
                   cache |-> cache, clicked |-> None,
                   searched |-> TRUE, idx |-> 0, threshold |-> 0]

-----------------------------------------------------------------------------
(* History of the cache operations (a record of the calls, for the claims  *)
(* about the cache; the program does not keep it).                          *)

MaxOps == 3

OpSet(c) == [op |-> "set", arg |-> c]
OpInvalidate == [op |-> "invalidate", arg |-> None]

\* The argument of the most recent set_cache not followed by an
\* invalidate_cache; None if there is none.
LastSet(ops) ==
    IF ops = <<>> THEN None
    ELSE IF ops[Len(ops)].op = "set" THEN ops[Len(ops)].arg ELSE None

\* The history after a find_icon call that answered r: it called set_cache
\* exactly when it accepted a match.
OpsAfterFind(ops, r) ==
    IF r.searched /\ r.coords # None THEN Append(ops, OpSet(r.coords)) ELSE ops

-----------------------------------------------------------------------------
(* SpecMatch: the two matchers applied to every template list and screen.  *)

\* No function of the launch, close and write flows is running.
NoRun ==
    /\ call = ""
    /\ pc = ""
    /\ attempt = 0
    /\ polls = 0
    /\ coords = None
    /\ result = None
    /\ todo = <<>>
    /\ stack = <<>>
    /\ log = <<>>

InitIdle ==
    /\ mres = NotCalled
    /\ fres = NotCalled
    /\ icon_cache = None
    /\ cacheOps = <<>>
    /\ windows = <<>>
    /\ listed = NotCalled
    /\ listed_main = NotCalled
    /\ NoRun
    /\ NoIO

InitMatch ==
    /\ templates \in SeqsUpTo(TemplatePool, MaxTemplates)
    /\ screen \in Screens
    /\ InitIdle

\* One call of main.find_icon_with_multiple_templates(templates).
MatchMain ==
    /\ ~mres.called
    /\ mres' = find_icon_with_multiple_templates(templates, screen)
    /\ UNCHANGED <<templates, screen, fres, cacheVars, winVars, runVars>>
    /\ UNCHANGED ioVars

\* One call of icon_detector.find_icon(bot, labels, use_cache, click); gone
\* is kept with the answer.
MatchPkg ==
    /\ ~fres.called
    /\ \E use_cache \in BOOLEAN, click \in BOOLEAN, gone \in SUBSET (1..Len(templates)) :
          LET r == find_icon(icon_cache, templates, use_cache, click, gone)
          IN  /\ fres' = r @@ [gone |-> gone]
              /\ icon_cache' = r.cache
              /\ cacheOps' = OpsAfterFind(cacheOps, r)
    /\ UNCHANGED <<templates, screen, mres, winVars, runVars>>
    /\ UNCHANGED ioVars

NextMatch == MatchMain \/ MatchPkg

SpecMatch == InitMatch /\ [][NextMatch]_vars

-----------------------------------------------------------------------------
(* Claims about the matchers (SpecMatch).                                  *)

\* The index of the template with the strictly highest score; 0 when the
\* list is empty or the highest score is shared.
StrictBest(ts) ==
    LET top == {i \in 1..Len(ts) : \A j \in 1..Len(ts) : j # i => ts[j].score < ts[i].score}
    IN  IF top = {} THEN 0 ELSE CHOOSE i \in top : TRUE

SomeReaches(ts, threshold) == \E i \in 1..Len(ts) : ts[i].score >= threshold
NoneReaches(ts, threshold) == \A i \in 1..Len(ts) : ts[i].score < threshold
AllFit(ts, scr) == \A i \in 1..Len(ts) : ~TooBig(ts[i], scr)

\* C1: when some template reaches the threshold, find_icon returns the centre
\* of the template with the strictly highest score of the whole list,
\* whatever the order of examination (icon_detector.find_icon, every label's
\* coordinates being available).
C1_FindIconReturnsBest ==
    (/\ fres.called /\ fres.searched /\ fres.gone = {}
     /\ SomeReaches(templates, MATCHING_THRESHOLD)
     /\ StrictBest(templates) # 0)
    => fres.coords = Centre(templates[StrictBest(templates)])

\* C2: when every template fits the capture and no template's best score
\* reaches the threshold, find_icon returns None (icon_detector.find_icon).
C2_FindIconNotFound ==
    (/\ fres.called /\ fres.searched
     /\ AllFit(templates, screen)
     /\ NoneReaches(templates, MATCHING_THRESHOLD))
    => fres.coords = None

\* C3: a template higher or wider than the capture is skipped: it is not
\* matched, it is not the best match, it raises no error, and the templates
\* that fit are still matched (main.find_icon_with_multiple_templates).
C3_TooBigIsSkipped ==
    mres.called =>
        \A i \in 1..Len(templates) :
            TooBig(templates[i], screen) =>
                /\ mres.raisedAt # i
                /\ i \notin mres.matched
                /\ mres.idx # i
                /\ (~mres.raised =>
                       \A j \in 1..Len(templates) :
                           ~TooBig(templates[j], screen) => j \in mres.matched)

\* The same three statements for main.find_icon_with_multiple_templates on
\* the calls that raise nothing.
Main_ReturnsBest ==
    (/\ mres.called /\ ~mres.raised
     /\ AllFit(templates, screen)
     /\ SomeReaches(templates, MATCH_THRESHOLD)
     /\ StrictBest(templates) # 0)
    => mres.coords = Centre(templates[StrictBest(templates)])

Main_NotFound ==
    (/\ mres.called /\ ~mres.raised
     /\ AllFit(templates, screen)
     /\ NoneReaches(templates, MATCH_THRESHOLD))
    => mres.coords = None

Main_SkipsTooBig ==
    (mres.called /\ ~mres.raised) =>
        \A i \in 1..Len(templates) :
            TooBig(templates[i], screen) =>
                /\ i \notin mres.matched
                /\ mres.idx # i
                /\ \A j \in 1..Len(templates) :
                       ~TooBig(templates[j], screen) => j \in mres.matched

-----------------------------------------------------------------------------
(* SpecWin: the two window filters applied to every desktop.               *)

WindowTitles == {T_Notepad, T_Untitled, T_NppEditor, T_MyNotes, T_CodeFile, T_Cursor}
WindowPool == [title : WindowTitles, visible : BOOLEAN]

MaxWindows == 2

NoTemplates == <<>>
DefaultScreen == [w |-> 4, h |-> 4]

InitWin ==
    /\ templates = NoTemplates
    /\ screen = DefaultScreen
    /\ mres = NotCalled
    /\ fres = NotCalled
    /\ icon_cache = None
    /\ cacheOps = <<>>
    /\ windows \in SeqsUpTo(WindowPool, MaxWindows)
    /\ listed = NotCalled
    /\ listed_main = NotCalled
    /\ NoRun
    /\ NoIO

\* One call of notepad.get_notepad_windows().
ListWindows ==
    /\ ~listed.called
    /\ listed' = [called |-> TRUE, ws |-> get_notepad_windows(windows)]
    /\ UNCHANGED <<matchVars, cacheVars, windows, listed_main, runVars>>
    /\ UNCHANGED ioVars

\* One call of main.get_notepad_windows().
ListWindowsMain ==
    /\ ~listed_main.called
    /\ listed_main' = [called |-> TRUE, ws |-> get_notepad_windows_main(windows)]
    /\ UNCHANGED <<matchVars, cacheVars, windows, listed, runVars>>
    /\ UNCHANGED ioVars

NextWin == ListWindows \/ ListWindowsMain

SpecWin == InitWin /\ [][NextWin]_vars

InSeq(x, q) == \E i \in 1..Len(q) : q[i] = x

HasImpostor(t) == \E imp \in Impostors : contains(lower(t), imp)

\* What the claim asks of one answer ws of a window filter.
ExcludesImpostors(ws) ==
    /\ \A i \in 1..Len(ws) : ~HasImpostor(ws[i].title)
    /\ \A i \in 1..Len(windows) : windows[i].title = T_Untitled => InSeq(windows[i], ws)
    /\ \A i \in 1..Len(ws) : ws[i].title # T_NppEditor

\* C5: get_notepad_windows returns no window whose title contains an
\* impostor substring ("cursor", "code", "editor"), also when the title
\* contains or ends with the target title; "Untitled - Notepad" is returned
\* and "Notepad++ Editor" is not (notepad.get_notepad_windows).
C5_NoImpostorListed == listed.called => ExcludesImpostors(listed.ws)

\* The same statement for main.get_notepad_windows.
Main_NoImpostorListed == listed_main.called => ExcludesImpostors(listed_main.ws)

-----------------------------------------------------------------------------
(* SpecCache: the coordinate cache under every sequence of set_cache,      *)
(* invalidate_cache and find_icon calls.                                   *)

CacheCoords == {<<0, 0>>, <<1, 2>>, <<2, 1>>}

\* What the labels may score on the screen at one find_icon call.
LabelPool == {t \in TemplatePool : t.w = 3 /\ t.h = 3 /\ t.ch = 3 /\ t.score \in {0, 85}}

InitCache ==
    /\ templates = NoTemplates
    /\ screen = DefaultScreen
    /\ InitIdle

\* icon_detector.set_cache(c)
SetCache ==
    /\ Len(cacheOps) < MaxOps
    /\ \E c \in CacheCoords :
          /\ icon_cache' = set_cache(icon_cache, c)
          /\ cacheOps' = Append(cacheOps, OpSet(c))
    /\ UNCHANGED <<matchVars, winVars, runVars>>
    /\ UNCHANGED ioVars

\* icon_detector.invalidate_cache()
InvalidateCache ==
    /\ Len(cacheOps) < MaxOps
    /\ icon_cache' = invalidate_cache(icon_cache)
    /\ cacheOps' = Append(cacheOps, OpInvalidate)
    /\ UNCHANGED <<matchVars, winVars, runVars>>
    /\ UNCHANGED ioVars

\* icon_detector.find_icon(bot, labels, use_cache, click) on some screen; the
\* answer is kept with the cache and the history the call started from.
FindIcon ==
    /\ \E use_cache \in BOOLEAN, click \in BOOLEAN,
          ts \in SeqsUpTo(LabelPool, MaxTemplates) :
          \E gone \in SUBSET (1..Len(ts)) :
             LET r == find_icon(icon_cache, ts, use_cache, click, gone)
             IN  /\ fres' = [called |-> TRUE, use_cache |-> use_cache,
                             coords |-> r.coords, clicked |-> r.clicked,
                             searched |-> r.searched,
                             cacheBefore |-> icon_cache, opsBefore |-> cacheOps]
                 /\ Len(OpsAfterFind(cacheOps, r)) <= MaxOps
                 /\ icon_cache' = r.cache
                 /\ cacheOps' = OpsAfterFind(cacheOps, r)
    /\ UNCHANGED <<templates, screen, mres, winVars, runVars>>
    /\ UNCHANGED ioVars

NextCache == SetCache \/ InvalidateCache \/ FindIcon

SpecCache == InitCache /\ [][NextCache]_vars

\* C4: the cache is one slot.  It holds the argument of the most recent
\* set_cache that no invalidate_cache followed, and nothing otherwise; a
\* cached read (find_icon with use_cache) returns that argument without
\* searching, and searches when the slot is empty.
C4_SingleSlot ==
    /\ icon_cache = LastSet(cacheOps)
    /\ (fres.called /\ fres.use_cache) =>
          IF LastSet(fres.opsBefore) # None
          THEN fres.coords = LastSet(fres.opsBefore) /\ ~fres.searched
          ELSE fres.searched

\* C4 witness: a set, an invalidate, a set, then a cached read that returns
\* the second set's argument.
C4_Witness ==
    /\ fres.called /\ fres.use_cache /\ ~fres.searched
    /\ Len(fres.opsBefore) = 3
    /\ fres.opsBefore[1].op = "set"
    /\ fres.opsBefore[2].op = "invalidate"
    /\ fres.opsBefore[3].op = "set"
    /\ fres.opsBefore[3].arg # fres.opsBefore[1].arg
    /\ fres.coords = fres.opsBefore[3].arg

-----------------------------------------------------------------------------
(* Launch/Close Controller: Ensure OPEN.                                   *)
(* notepad.launch_notepad with _verify_notepad_launched, and               *)
(* main.launch_and_validate_notepad, one step per call or loop iteration.  *)

FRESH_ATTEMPTS == 3     \* notepad.launch_notepad: for attempt in range(3)
RETRY_LIMIT == 3        \* main.RETRY_LIMIT

\* How many iterations of a polling loop fit in its wall-clock timeout.
VerifyPolls == 2

Ev(e, xy, flag) == [e |-> e, xy |-> xy, flag |-> flag]
Positions(e) == {i \in 1..Len(log) : log[i].e = e}

\* The templates the program holds do not change during a run; what they
\* score on the screen, and where, does.
ScreenScores == {0, 85}
Rescored(ts) ==
    {[i \in 1..Len(ts) |-> [ts[i] EXCEPT !.score = f[i][1], !.loc = f[i][2]]] :
        f \in [1..Len(ts) -> ScreenScores \X TemplateLocs]}

LoadedPool == {t \in TemplatePool : t.w = 3 /\ t.h = 3 /\ t.score = 0 /\ t.loc = <<0, 1>>
                                    /\ t.ch \in {0, 3}}

NotepadShown == [title |-> T_Untitled, visible |-> TRUE]
NotepadHidden == [title |-> T_Untitled, visible |-> FALSE]
EditorShown == [title |-> T_NppEditor, visible |-> TRUE]
Desktops == {<<>>, <<NotepadShown>>, <<NotepadHidden>>, <<EditorShown>>}

Running(f) == call = f /\ pc \notin {"done", "raised"}

\* `return v`: the caller resumes where its frame says; the outermost
\* function is done.
Return(v) ==
    /\ result' = v
    /\ IF stack = <<>>
       THEN /\ pc' = "done"
            /\ UNCHANGED <<call, stack>>
       ELSE /\ call' = Head(stack).f
            /\ pc' = Head(stack).resume
            /\ stack' = Tail(stack)

\* An exception leaves the running function: the innermost caller that has
\* an except clause around the call resumes there, and if there is none the
\* exception leaves the program's outermost function.
RECURSIVE Unwind(_)
Unwind(st) ==
    IF st = <<>> THEN <<>>
    ELSE IF Head(st).except # "" THEN st
    ELSE Unwind(Tail(st))

Raise ==
    /\ UNCHANGED result
    /\ IF Unwind(stack) = <<>>
       THEN /\ pc' = "raised"
            /\ stack' = <<>>
            /\ UNCHANGED call
       ELSE /\ call' = Head(Unwind(stack)).f
            /\ pc' = Head(Unwind(stack)).except
            /\ stack' = Tail(Unwind(stack))

\* A call: the frame pushed for the caller, which resumes at `resume` and
\* catches at `except` ("": no except clause around the call).
Frame(f, resume, except) == [f |-> f, resume |-> resume, except |-> except]

InitLaunch ==
    /\ templates \in SeqsUpTo(LoadedPool, MaxTemplates)
    /\ screen = DefaultScreen
    /\ mres = NotCalled
    /\ fres = NotCalled
    /\ icon_cache \in {None} \cup CacheCoords
    /\ cacheOps = <<>>
    /\ windows \in Desktops
    /\ listed = NotCalled
    /\ listed_main = NotCalled
    /\ call \in {"launch_notepad", "launch_and_validate_notepad"}
    /\ pc = "start"
    /\ attempt = 0
    /\ polls = 0
    /\ coords = None
    /\ result = None
    /\ todo = <<>>
    /\ stack = <<>>
    /\ log = <<Ev("enter", icon_cache, FALSE)>>
    /\ NoIO

\* The desktop changes under the program: a window opens, closes, is shown
\* or hidden.
EnvChange(desktops) ==
    /\ pc \notin {"done", "raised"}
    /\ windows' \in desktops \ {windows}
    /\ UNCHANGED <<matchVars, cacheVars, listed, listed_main, runVars>>
    /\ UNCHANGED ioVars

EnvWindows == EnvChange(Desktops)

\* launch_notepad line 103: coords = find_icon(bot, template_labels, use_cache=True)
LaunchFindCached ==
    /\ Running("launch_notepad") /\ pc = "start"
    /\ \E ts \in Rescored(templates) : \E gone \in SUBSET (1..Len(ts)) :
          LET r == find_icon(icon_cache, ts, TRUE, FALSE, gone)
          IN  /\ coords' = r.coords
              /\ icon_cache' = r.cache
              /\ log' = Append(log, Ev("find_cached", r.coords, r.searched))
              /\ pc' = IF r.coords # None THEN "verify_first" ELSE "retry"
    /\ polls' = 0
    /\ UNCHANGED <<matchVars, cacheOps, winVars, call, attempt, result, todo, stack>>
    /\ UNCHANGED ioVars

CacheAfterVerify_NoInvalidate(cache, xy, ok, first) ==
    IF ok THEN set_cache(cache, xy) ELSE cache

\* The cache after _verify_notepad_launched(coords) answered ok and
\* launch_notepad acted on it: set on success (line 128), invalidated when
\* the first attempt failed (line 108), untouched when a fresh attempt failed.
CacheAfterVerify(cache, xy, ok, first) ==
    IF ok THEN set_cache(cache, xy)
    ELSE IF first THEN invalidate_cache(cache)
    ELSE cache

\* _verify_notepad_launched, one iteration of its loop (lines 124-131) that
\* sees a visible Notepad window: launch_notepad returns True.
VerifySeen ==
    /\ Running("launch_notepad") /\ pc \in {"verify_first", "verify_fresh"}
    /\ polls < VerifyPolls
    /\ AnyVisible(get_notepad_windows(windows))
    /\ icon_cache' = CacheAfterVerify(icon_cache, coords, TRUE, pc = "verify_first")
    /\ log' = log \o <<Ev("verify", coords, TRUE), Ev("return", None, TRUE)>>
    /\ Return(TRUE)
    /\ UNCHANGED <<matchVars, cacheOps, winVars, attempt, polls, coords, todo>>
    /\ UNCHANGED ioVars

\* _verify_notepad_launched, one iteration that sees none.
VerifyPoll ==
    /\ Running("launch_notepad") /\ pc \in {"verify_first", "verify_fresh"}
    /\ polls < VerifyPolls
    /\ ~AnyVisible(get_notepad_windows(windows))
    /\ polls' = polls + 1
    /\ UNCHANGED <<matchVars, cacheVars, winVars, call, pc, attempt, coords, result,
                   todo, stack, log>>
    /\ UNCHANGED ioVars

\* _verify_notepad_launched times out and returns False: after the first
\* attempt the cache is invalidated (line 108), after a fresh attempt the
\* loop goes on (line 116).
VerifyTimeout ==
    /\ Running("launch_notepad") /\ pc \in {"verify_first", "verify_fresh"}
    /\ polls >= VerifyPolls
    /\ icon_cache' = CacheAfterVerify(icon_cache, coords, FALSE, pc = "verify_first")
    /\ log' = IF pc = "verify_first"
              THEN log \o <<Ev("verify", coords, FALSE), Ev("invalidate", None, FALSE)>>
              ELSE Append(log, Ev("verify", coords, FALSE))
    /\ attempt' = IF pc = "verify_first" THEN attempt ELSE attempt + 1
    /\ pc' = "retry"
    /\ UNCHANGED <<matchVars, cacheOps, winVars, call, polls, coords, result, todo, stack>>
    /\ UNCHANGED ioVars

\* launch_notepad lines 111-116: one fresh attempt,
\* coords = find_icon(bot, template_labels, use_cache=False).
LaunchFindFresh ==
    /\ Running("launch_notepad") /\ pc = "retry"
    /\ attempt < FRESH_ATTEMPTS
    /\ \E ts \in Rescored(templates) : \E gone \in SUBSET (1..Len(ts)) :
          LET r == find_icon(icon_cache, ts, FALSE, FALSE, gone)
          IN  /\ coords' = r.coords
              /\ icon_cache' = r.cache
              /\ log' = Append(log, Ev("find_fresh", r.coords, r.searched))
              /\ pc' = IF r.coords # None THEN "verify_fresh" ELSE "retry"
              /\ attempt' = IF r.coords # None THEN attempt ELSE attempt + 1
    /\ polls' = 0
    /\ UNCHANGED <<matchVars, cacheOps, winVars, call, result, todo, stack>>
    /\ UNCHANGED ioVars

\* launch_notepad line 118: return False
LaunchGiveUp ==
    /\ Running("launch_notepad") /\ pc = "retry"
    /\ attempt >= FRESH_ATTEMPTS
    /\ log' = Append(log, Ev("return", None, FALSE))
    /\ Return(FALSE)
    /\ UNCHANGED <<matchVars, cacheVars, winVars, attempt, polls, coords, todo>>
    /\ UNCHANGED ioVars

\* main.launch_and_validate_notepad lines 255-267: one attempt to find the
\* icon; when found, the double-click.
MainFind ==
    /\ Running("launch_and_validate_notepad") /\ pc = "start"
    /\ attempt < RETRY_LIMIT
    /\ \E ts \in Rescored(templates) :
          LET r == find_icon_with_multiple_templates(ts, screen)
          IN  /\ coords' = r.coords
              /\ IF r.raised
                 THEN Raise
                 ELSE /\ pc' = IF r.coords # None THEN "validate" ELSE "start"
                      /\ UNCHANGED <<call, result, stack>>
              /\ attempt' = IF ~r.raised /\ r.coords = None THEN attempt + 1 ELSE attempt
              /\ log' = IF r.raised THEN Append(log, Ev("raise", None, FALSE))
                        ELSE IF r.coords # None
                             THEN log \o <<Ev("find", r.coords, TRUE),
                                           Ev("double_click", r.coords, FALSE)>>
                             ELSE Append(log, Ev("find", None, TRUE))
    /\ polls' = 0
    /\ UNCHANGED <<matchVars, cacheVars, winVars, todo>>
    /\ UNCHANGED ioVars

\* lines 262-264: the icon was not found in RETRY_LIMIT attempts.
MainGiveUp ==
    /\ Running("launch_and_validate_notepad") /\ pc = "start"
    /\ attempt >= RETRY_LIMIT
    /\ log' = Append(log, Ev("return", None, FALSE))
    /\ Return(FALSE)
    /\ UNCHANGED <<matchVars, cacheVars, winVars, attempt, polls, coords, todo>>
    /\ UNCHANGED ioVars

\* lines 271-278: one iteration of the validation loop.
MainValidate ==
    /\ Running("launch_and_validate_notepad") /\ pc = "validate"
    /\ polls < VerifyPolls
    /\ IF AnyVisible(get_notepad_windows_main(windows))
       THEN /\ log' = log \o <<Ev("verify", coords, TRUE), Ev("return", None, TRUE)>>
            /\ Return(TRUE)
            /\ polls' = polls
       ELSE /\ polls' = polls + 1
            /\ UNCHANGED <<log, call, pc, result, stack>>
    /\ UNCHANGED <<matchVars, cacheVars, winVars, attempt, coords, todo>>
    /\ UNCHANGED ioVars

\* lines 280-281: the validation timed out.
MainValidateTimeout ==
    /\ Running("launch_and_validate_notepad") /\ pc = "validate"
    /\ polls >= VerifyPolls
    /\ log' = log \o <<Ev("verify", coords, FALSE), Ev("return", None, FALSE)>>
    /\ Return(FALSE)
    /\ UNCHANGED <<matchVars, cacheVars, winVars, attempt, polls, coords, todo>>
    /\ UNCHANGED ioVars

LaunchStep ==
    \/ LaunchFindCached
    \/ VerifySeen
    \/ VerifyPoll
    \/ VerifyTimeout
    \/ LaunchFindFresh
    \/ LaunchGiveUp
    \/ MainFind
    \/ MainGiveUp
    \/ MainValidate
    \/ MainValidateTimeout

NextLaunch == LaunchStep \/ EnvWindows

SpecLaunch == InitLaunch /\ [][NextLaunch]_vars

\* The program is the only thread and keeps running; the desktop owes nothing.
FairLaunch == SpecLaunch /\ WF_vars(LaunchStep)

-----------------------------------------------------------------------------
(* Launch/Close Controller: Ensure CLOSED.                                 *)
(* notepad.close_notepad and main.close_notepad_fully.  A window handle is  *)
(* the window's title: the desktops here hold one window per title.         *)

CodeFileShown == [title |-> T_CodeFile, visible |-> TRUE]
MyNotesShown == [title |-> T_MyNotes, visible |-> TRUE]
CloseDesktops ==
    {<<>>, <<NotepadShown>>, <<NotepadHidden>>, <<EditorShown>>, <<CodeFileShown>>,
     <<MyNotesShown>>, <<NotepadShown, MyNotesShown>>, <<NotepadHidden, CodeFileShown>>}

Handles(ws) == [i \in 1..Len(ws) |-> ws[i].title]

\* window.visible, asked of the desktop when the program reads it.
LiveVisible(h) == \E i \in 1..Len(windows) : windows[i].title = h /\ windows[i].visible

\* The enumeration the program just made: how many windows, any visible.
Listed(ws) == Ev("list", <<Len(ws)>>, AnyVisible(ws))

\* main.py lines 197-200, 229-231: titles the close loops pass over.
SkipTitle(h) == contains(lower(h), S_cursor) \/ contains(lower(h), S_code)

InitClose ==
    /\ templates = NoTemplates
    /\ screen = DefaultScreen
    /\ mres = NotCalled
    /\ fres = NotCalled
    /\ icon_cache = None
    /\ cacheOps = <<>>
    /\ windows \in CloseDesktops
    /\ listed = NotCalled
    /\ listed_main = NotCalled
    /\ call \in {"close_notepad", "close_notepad_fully"}
    /\ pc = "start"
    /\ attempt = 0
    /\ polls = 0
    /\ coords = None
    /\ result = None
    /\ todo = <<>>
    /\ stack = <<>>
    /\ log = <<Ev("enter", None, FALSE)>>
    /\ NoIO

EnvCloseWindows == EnvChange(CloseDesktops)

\* What a loop does with one window of its list: `events` on success, the
\* exception when one of the window operations raised.
LoopOver(ok, events) ==
    IF ok
    THEN /\ log' = log \o events
         /\ todo' = Tail(todo)
         /\ UNCHANGED <<call, pc, result, stack>>
    ELSE /\ log' = log \o events \o <<Ev("raise", None, FALSE)>>
         /\ todo' = <<>>
         /\ Raise

\* close_notepad lines 80-82: no Notepad window, return True; else start
\* the loop over active_windows.
CloseStart ==
    /\ Running("close_notepad") /\ pc = "start"
    /\ LET ws == get_notepad_windows(windows)
       IN  IF Len(ws) = 0
           THEN /\ log' = log \o <<Listed(ws), Ev("return", None, TRUE)>>
                /\ Return(TRUE)
                /\ UNCHANGED todo
           ELSE /\ log' = Append(log, Listed(ws))
                /\ todo' = Handles(ws)
                /\ pc' = "closing"
                /\ UNCHANGED <<call, result, stack>>
    /\ UNCHANGED <<matchVars, cacheVars, winVars, attempt, polls, coords>>
    /\ UNCHANGED ioVars

\* lines 85-87: one window of the loop; window.close() is asked of the
\* operating system, which may refuse it, and then it raises.
CloseNext ==
    /\ Running("close_notepad") /\ pc = "closing" /\ todo # <<>>
    /\ IF LiveVisible(Head(todo))
       THEN \E closed \in BOOLEAN : LoopOver(closed, <<Ev("close", None, closed)>>)
       ELSE LoopOver(TRUE, <<>>)
    /\ UNCHANGED <<matchVars, cacheVars, winVars, attempt, polls, coords>>
    /\ UNCHANGED ioVars

\* lines 89-93: after the pause, the check of the windows that remain.
CloseCheck ==
    /\ Running("close_notepad") /\ pc = "closing" /\ todo = <<>>
    /\ LET ws == get_notepad_windows(windows)
       IN  /\ log' = log \o <<Listed(ws), Ev("return", None, ~AnyVisible(ws))>>
           /\ Return(~AnyVisible(ws))
    /\ UNCHANGED <<matchVars, cacheVars, winVars, attempt, polls, coords, todo>>
    /\ UNCHANGED ioVars

\* close_notepad_fully lines 186-190.
FullyStart ==
    /\ Running("close_notepad_fully") /\ pc = "start"
    /\ LET ws == get_notepad_windows_main(windows)
       IN  IF Len(ws) = 0
           THEN /\ log' = log \o <<Listed(ws), Ev("return", None, TRUE)>>
                /\ Return(TRUE)
                /\ UNCHANGED todo
           ELSE /\ log' = Append(log, Listed(ws))
                /\ todo' = Handles(ws)
                /\ pc' = "closing"
                /\ UNCHANGED <<call, result, stack>>
    /\ UNCHANGED <<matchVars, cacheVars, winVars, attempt, polls, coords>>
    /\ UNCHANGED ioVars

\* lines 193-211: one window of the first loop; when window.close() raises,
\* the except clause activates the window and sends Alt+F4.
FullyCloseNext ==
    /\ Running("close_notepad_fully") /\ pc = "closing" /\ todo # <<>>
    /\ IF LiveVisible(Head(todo)) /\ ~SkipTitle(Head(todo))
       THEN \E closed \in BOOLEAN, activated \in BOOLEAN :
               IF closed
               THEN LoopOver(TRUE, <<Ev("close", None, TRUE)>>)
               ELSE IF activated
               THEN LoopOver(TRUE, <<Ev("close", None, FALSE), Ev("activate", None, TRUE),
                                     Ev("alt_f4", None, FALSE)>>)
               ELSE LoopOver(FALSE, <<Ev("close", None, FALSE), Ev("activate", None, FALSE)>>)
       ELSE LoopOver(TRUE, <<>>)
    /\ polls' = 0
    /\ UNCHANGED <<matchVars, cacheVars, winVars, attempt, coords>>
    /\ UNCHANGED ioVars

\* lines 215-221: one iteration of the verification loop.
FullyPoll ==
    /\ Running("close_notepad_fully") /\ pc = "closing" /\ todo = <<>>
    /\ polls < VerifyPolls
    /\ LET ws == get_notepad_windows_main(windows)
       IN  IF ~AnyVisible(ws)
           THEN /\ log' = log \o <<Listed(ws), Ev("return", None, TRUE)>>
                /\ Return(TRUE)
                /\ UNCHANGED polls
           ELSE /\ log' = Append(log, Listed(ws))
                /\ polls' = polls + 1
                /\ UNCHANGED <<call, pc, result, stack>>
    /\ UNCHANGED <<matchVars, cacheVars, winVars, attempt, coords, todo>>
    /\ UNCHANGED ioVars

\* lines 224-226 and 250: the loop timed out; list the windows again and,
\* if any is left, announce the aggressive close.
FullyRecheck ==
    /\ Running("close_notepad_fully") /\ pc = "closing" /\ todo = <<>>
    /\ polls >= VerifyPolls
    /\ LET ws == get_notepad_windows_main(windows)
       IN  IF Len(ws) = 0
           THEN /\ log' = log \o <<Listed(ws), Ev("return", None, TRUE)>>
                /\ Return(TRUE)
                /\ UNCHANGED todo
           ELSE /\ log' = log \o <<Listed(ws), Ev("aggressive", None, FALSE)>>
                /\ todo' = Handles(ws)
                /\ pc' = "aggressive"
                /\ UNCHANGED <<call, result, stack>>
    /\ UNCHANGED <<matchVars, cacheVars, winVars, attempt, polls, coords>>
    /\ UNCHANGED ioVars

\* lines 227-239: one window of the aggressive loop: activate, Alt+F4, 'n'.
FullyAggressiveNext ==
    /\ Running("close_notepad_fully") /\ pc = "aggressive" /\ todo # <<>>
    /\ IF LiveVisible(Head(todo)) /\ ~SkipTitle(Head(todo))
       THEN \E activated \in BOOLEAN :
               IF activated
               THEN LoopOver(TRUE, <<Ev("activate", None, TRUE), Ev("alt_f4", None, FALSE),
                                     Ev("press_n", None, FALSE)>>)
               ELSE LoopOver(FALSE, <<Ev("activate", None, FALSE)>>)
       ELSE LoopOver(TRUE, <<>>)
    /\ UNCHANGED <<matchVars, cacheVars, winVars, attempt, polls, coords>>
    /\ UNCHANGED ioVars

\* lines 242-248: the final verification.
FullyFinal ==
    /\ Running("close_notepad_fully") /\ pc = "aggressive" /\ todo = <<>>
    /\ LET ws == get_notepad_windows_main(windows)
       IN  /\ log' = log \o <<Listed(ws), Ev("return", None, ~AnyVisible(ws))>>
           /\ Return(~AnyVisible(ws))
    /\ UNCHANGED <<matchVars, cacheVars, winVars, attempt, polls, coords, todo>>
    /\ UNCHANGED ioVars

CloseStep ==
    \/ CloseStart
    \/ CloseNext
    \/ CloseCheck
    \/ FullyStart
    \/ FullyCloseNext
    \/ FullyPoll
    \/ FullyRecheck
    \/ FullyAggressiveNext
    \/ FullyFinal

NextClose == CloseStep \/ EnvCloseWindows

SpecClose == InitClose /\ [][NextClose]_vars

FairClose == SpecClose /\ WF_vars(CloseStep)

\* The last enumeration of the windows the program made.
LastListed == log[CHOOSE i \in Positions("list") : \A j \in Positions("list") : j <= i]

\* What the claim asks of a call that returned.
ClosedAsClaimed ==
    /\ result \in BOOLEAN
    /\ log[2].xy = <<0>> => (result = TRUE /\ Len(log) = 3)
    /\ log[2].xy # <<0>> => (result = ~LastListed.flag)

\* C9: Ensure CLOSED never raises and returns a boolean: True at once, with
\* no close request and no key press, when the first enumeration finds no
\* Notepad window; otherwise True exactly when the last enumeration found no
\* visible Notepad window.
C9_CloseReturnsLastCheck ==
    call \in {"close_notepad", "close_notepad_fully"} =>
        /\ pc # "raised"
        /\ pc = "done" => ClosedAsClaimed

\* The same statement for the calls that return.
Close_ReturnsLastCheck ==
    (call \in {"close_notepad", "close_notepad_fully"} /\ pc = "done") => ClosedAsClaimed

\* Every close ends.
Close_Ends == <>(pc \in {"done", "raised"})

-----------------------------------------------------------------------------
(* Posts, their text and file, and the editor the keystrokes go to.         *)

\* f"Title: {post['title']}\n\n{post['body']}"
TitlePrefix == <<"T", "i", "t", "l", "e", ":", " ">>
Content_OneNewline(p) == TitlePrefix \o p.title \o <<"\n">> \o p.body
Content(p) == TitlePrefix \o p.title \o <<"\n", "\n">> \o p.body

\* str(n) for an id n >= 0
DecimalDigits == <<"0", "1", "2", "3", "4", "5", "6", "7", "8", "9">>
RECURSIVE str(_)
str(n) == IF n < 10 THEN <<DecimalDigits[n + 1]>>
          ELSE str(n \div 10) \o <<DecimalDigits[(n % 10) + 1]>>

\* f"post_{post['id']}.txt"
FileName(p) == <<"p", "o", "s", "t", "_">> \o str(p.id) \o <<".", "t", "x", "t">>

\* Path.home() / "Desktop" / "tjm-project", as the string str() gives.
PROJECT_PATH == <<"~", "/", "D", "e", "s", "k", "t", "o", "p", "/",
                  "t", "j", "m", "-", "p", "r", "o", "j", "e", "c", "t">>

\* str(project_path / filename)
FilePath(dir, p) == dir \o <<"/">> \o FileName(p)

\* pyautogui.write(s): one key press per character; a character that is
\* not a key of the keyboard mapping is dropped (the quote characters,
\* which are keys too, do not occur in the texts here).
KeyboardKeys ==
    {"a", "b", "c", "d", "e", "f", "g", "h", "i", "j", "k", "l", "m", "n", "o", "p", "q",
     "r", "s", "t", "u", "v", "w", "x", "y", "z", "A", "B", "C", "D", "E", "F", "G", "H",
     "I", "J", "K", "L", "M", "N", "O", "P", "Q", "R", "S", "T", "U", "V", "W", "X", "Y",
     "Z", "0", "1", "2", "3", "4", "5", "6", "7", "8", "9", " ", "!", "#", "$", "%", "&",
     "'", "(", ")", "*", "+", ",", "-", ".", "/", ":", ";", "<", "=", ">", "?", "@", "[",
     "]", "^", "_", "{", "|", "}", "~", "\n", "\t", "\\"}
Typed(s) == SelectSeq(s, LAMBDA c : c \in KeyboardKeys)

\* The posts of the runs: two ids, two texts for the same id.
PostPool ==
    {[id |-> 42, title |-> <<"T">>, body |-> <<"B">>],
     [id |-> 42, title |-> <<"T">>, body |-> <<"C">>],
     [id |-> 7, title |-> <<"U">>, body |-> <<"B", "\n", "b">>]}

SaveAsDialog == [title |-> T_SaveAs, visible |-> TRUE]
ConfirmDialog == [title |-> T_ConfirmSaveAs, visible |-> TRUE]

\* A text control: its text, and whether all of it is selected.
Control(text, sel) == [text |-> text, sel |-> sel]
EmptyControl == Control(<<>>, FALSE)
SelectAll(c) == [c EXCEPT !.sel = TRUE]
DeleteKey(c) == IF c.sel THEN EmptyControl ELSE c
Insert(c, s) == IF c.sel THEN Control(s, FALSE) ELSE Control(c.text \o s, FALSE)

\* The file-name field of a Save As dialog that has just opened.
FreshField == Control(<<"*", ".", "t", "x", "t">>, TRUE)

\* The state the keystrokes act on.
Editor == [ws |-> windows, clipboard |-> clipboard, doc |-> doc, field |-> field,
           files |-> files]

Without(ws, w) == SelectSeq(ws, LAMBDA x : x # w)
ConfirmOpen(a) == InSeq(ConfirmDialog, a.ws)
DialogOpen(a) == InSeq(SaveAsDialog, a.ws)
EditorFocus(a) == ~ConfirmOpen(a) /\ ~DialogOpen(a) /\ AnyVisible(get_notepad_windows(a.ws))

\* The file is written and the dialogs close.
Saved(a) ==
    [a EXCEPT !.files = (a.field.text :> a.doc.text) @@ a.files,
              !.ws = Without(Without(a.ws, ConfirmDialog), SaveAsDialog)]

\* An edit of the control that has the keyboard focus.
Edit(a, op(_)) ==
    IF ConfirmOpen(a) THEN a
    ELSE IF DialogOpen(a) THEN [a EXCEPT !.field = op(a.field)]
    ELSE IF EditorFocus(a) THEN [a EXCEPT !.doc = op(a.doc)]
    ELSE a

\* What one input of the program does to the editor.  The flag of a save
\* command tells whether the editor answers it with its Save As dialog.
Apply(a, ev) ==
    CASE ev.e \in {"copy_content", "copy_path"} -> [a EXCEPT !.clipboard = ev.xy]
      [] ev.e = "ctrl_n" -> IF EditorFocus(a) THEN [a EXCEPT !.doc = EmptyControl] ELSE a
      [] ev.e = "ctrl_w" -> IF EditorFocus(a) THEN [a EXCEPT !.doc = EmptyControl] ELSE a
      [] ev.e = "ctrl_a" -> Edit(a, SelectAll)
      [] ev.e = "delete" -> Edit(a, DeleteKey)
      [] ev.e = "ctrl_v" ->
            IF a.clipboard = None THEN a
            ELSE Edit(a, LAMBDA c : Insert(c, a.clipboard))
      [] ev.e = "type_path" -> Edit(a, LAMBDA c : Insert(c, Typed(ev.xy)))
      [] ev.e = "ctrl_s" ->
            IF EditorFocus(a) /\ ev.flag
            THEN [a EXCEPT !.ws = a.ws \o <<SaveAsDialog>>, !.field = FreshField]
            ELSE a
      [] ev.e = "press_enter" ->
            IF ConfirmOpen(a) THEN [a EXCEPT !.ws = Without(a.ws, ConfirmDialog)]
            ELSE IF DialogOpen(a)
                 THEN IF a.field.text \in DOMAIN a.files
                      THEN [a EXCEPT !.ws = a.ws \o <<ConfirmDialog>>]
                      ELSE Saved(a)
            ELSE Edit(a, LAMBDA c : Insert(c, <<"\n">>))
      [] ev.e = "press_y" ->
            IF ConfirmOpen(a) THEN Saved(a)
            ELSE Edit(a, LAMBDA c : Insert(c, <<"y">>))
      [] OTHER -> a

\* How the editor may answer a save command sent now: with its Save As
\* dialog or not when it has the focus, not at all when it has not.
SaveAnswers == IF EditorFocus(Editor) THEN BOOLEAN ELSE {FALSE}

RECURSIVE ApplyAll(_, _)
ApplyAll(a, evs) == IF evs = <<>> THEN a ELSE ApplyAll(Apply(a, Head(evs)), Tail(evs))

\* The program issues the inputs evs, in order.
Inputs(evs) ==
    LET a == ApplyAll(Editor, evs)
    IN  /\ log' = log \o evs
        /\ windows' = a.ws
        /\ clipboard' = a.clipboard
        /\ doc' = a.doc
        /\ field' = a.field
        /\ files' = a.files

-----------------------------------------------------------------------------
(* Workflow of the script: main.close_existing_notepad and                 *)
(* main.process_single_post, which calls it, launch_and_validate_notepad    *)
(* and close_notepad_fully.                                                 *)

\* A call from the running function: it resumes at `resume` when the callee
\* returns and at `except` when the callee raises inside its try block.
Call(f, resume, except) ==
    /\ call' = f
    /\ pc' = "start"
    /\ stack' = <<Frame(call, resume, except)>> \o stack
    /\ attempt' = 0
    /\ polls' = 0
    /\ todo' = <<>>

\* close_existing_notepad lines 133-135.
ExistingStart ==
    /\ Running("close_existing_notepad") /\ pc = "start"
    /\ LET ws == get_notepad_windows_main(windows)
       IN  IF Len(ws) = 0
           THEN /\ log' = log \o <<Listed(ws), Ev("return", None, FALSE)>>
                /\ Return(None)
                /\ UNCHANGED todo
           ELSE /\ log' = Append(log, Listed(ws))
                /\ todo' = Handles(ws)
                /\ pc' = "closing"
                /\ UNCHANGED <<call, result, stack>>
    /\ UNCHANGED <<matchVars, cacheVars, winVars, attempt, polls, coords>>
    /\ UNCHANGED ioVars

\* lines 138-160: one window of the first loop: window.close(), which is
\* not inside the try block, then 'n' for the save prompt.
ExistingNext ==
    /\ Running("close_existing_notepad") /\ pc = "closing" /\ todo # <<>>
    /\ IF LiveVisible(Head(todo)) /\ ~SkipTitle(Head(todo))
       THEN \E closed \in BOOLEAN :
               IF closed
               THEN LoopOver(TRUE, <<Ev("close", None, TRUE), Ev("press_n", None, FALSE)>>)
               ELSE LoopOver(FALSE, <<Ev("close", None, FALSE)>>)
       ELSE LoopOver(TRUE, <<>>)
    /\ UNCHANGED <<matchVars, cacheVars, winVars, attempt, polls, coords>>
    /\ UNCHANGED ioVars

\* lines 163-167 and 181: the final check.
ExistingRecheck ==
    /\ Running("close_existing_notepad") /\ pc = "closing" /\ todo = <<>>
    /\ LET ws == get_notepad_windows_main(windows)
       IN  IF Len(ws) = 0
           THEN /\ log' = log \o <<Listed(ws), Ev("return", None, FALSE)>>
                /\ Return(None)
                /\ UNCHANGED todo
           ELSE /\ log' = Append(log, Listed(ws))
                /\ todo' = Handles(ws)
                /\ pc' = "fallback"
                /\ UNCHANGED <<call, result, stack>>
    /\ UNCHANGED <<matchVars, cacheVars, winVars, attempt, polls, coords>>
    /\ UNCHANGED ioVars

\* lines 168-179: one window of the Alt+F4 fallback loop.
ExistingFallbackNext ==
    /\ Running("close_existing_notepad") /\ pc = "fallback" /\ todo # <<>>
    /\ IF LiveVisible(Head(todo)) /\ ~SkipTitle(Head(todo))
       THEN \E activated \in BOOLEAN :
               IF activated
               THEN LoopOver(TRUE, <<Ev("activate", None, TRUE), Ev("alt_f4", None, FALSE),
                                     Ev("press_n", None, FALSE)>>)
               ELSE LoopOver(FALSE, <<Ev("activate", None, FALSE)>>)
       ELSE LoopOver(TRUE, <<>>)
    /\ UNCHANGED <<matchVars, cacheVars, winVars, attempt, polls, coords>>
    /\ UNCHANGED ioVars

\* line 181: the function ends.
ExistingDone ==
    /\ Running("close_existing_notepad") /\ pc = "fallback" /\ todo = <<>>
    /\ log' = Append(log, Ev("return", None, FALSE))
    /\ Return(None)
    /\ UNCHANGED <<matchVars, cacheVars, winVars, attempt, polls, coords, todo>>
    /\ UNCHANGED ioVars

\* process_single_post line 288: close_existing_notepad()
PspCloseExisting ==
    /\ Running("process_single_post") /\ pc = "start"
    /\ Call("close_existing_notepad", "launch", "")
    /\ UNCHANGED <<matchVars, cacheVars, winVars, coords, result, log>>
    /\ UNCHANGED ioVars

\* line 290: launch_and_validate_notepad(templates_list), before the try.
PspLaunch ==
    /\ Running("process_single_post") /\ pc = "launch"
    /\ Call("launch_and_validate_notepad", "launched", "")
    /\ UNCHANGED <<matchVars, cacheVars, winVars, coords, result, log>>
    /\ UNCHANGED ioVars

\* lines 290-292: the launch failed, the post is skipped.
PspSkip ==
    /\ Running("process_single_post") /\ pc = "launched" /\ result = FALSE
    /\ log' = log \o <<Ev("skip", None, FALSE), Ev("return", None, FALSE)>>
    /\ Return(None)
    /\ UNCHANGED <<matchVars, cacheVars, winVars, attempt, polls, coords, todo>>
    /\ UNCHANGED ioVars

\* lines 296-307: focus the first Notepad window, if there is one.
PspFocus ==
    /\ Running("process_single_post") /\ pc = "launched" /\ result = TRUE
    /\ LET ws == get_notepad_windows_main(windows)
       IN  IF Len(ws) > 0
           THEN \E activated \in BOOLEAN :
                   IF activated
                   THEN /\ log' = log \o <<Listed(ws), Ev("activate", None, TRUE),
                                           Ev("click_center", None, FALSE)>>
                        /\ pc' = "write"
                        /\ UNCHANGED <<call, result, stack>>
                   ELSE /\ log' = log \o <<Listed(ws), Ev("activate", None, FALSE),
                                           Ev("raise", None, FALSE)>>
                        /\ pc' = "except"
                        /\ UNCHANGED <<call, result, stack>>
           ELSE /\ log' = Append(log, Listed(ws))
                /\ pc' = "write"
                /\ UNCHANGED <<call, result, stack>>
    /\ UNCHANGED <<matchVars, cacheVars, winVars, attempt, polls, coords, todo>>
    /\ UNCHANGED ioVars

\* lines 311-330: new document, clear it, paste the content, save command.
PspWrite ==
    /\ Running("process_single_post") /\ pc = "write"
    /\ \E shown \in SaveAnswers :
          Inputs(<<Ev("ctrl_n", None, FALSE), Ev("ctrl_a", None, FALSE),
                   Ev("delete", None, FALSE), Ev("copy_content", Content(post), FALSE),
                   Ev("ctrl_v", None, FALSE), Ev("ctrl_s", None, shown)>>)
    /\ pc' = "path"
    /\ UNCHANGED <<matchVars, cacheVars, listed, listed_main, call, attempt, polls,
                   coords, result, todo, stack, posts, post>>

\* lines 331-337: after one second the path is typed and confirmed; no
\* window is looked for.
PspTypePath ==
    /\ Running("process_single_post") /\ pc = "path"
    /\ Inputs(<<Ev("type_path", FilePath(PROJECT_PATH, post), FALSE),
                Ev("press_enter", None, FALSE)>>)
    /\ pc' = "confirm"
    /\ UNCHANGED <<matchVars, cacheVars, listed, listed_main, call, attempt, polls,
                   coords, result, todo, stack, posts, post>>

\* lines 340-344: answer the overwrite confirmation, if it is there.
PspConfirm ==
    /\ Running("process_single_post") /\ pc = "confirm"
    /\ IF Len(getWindowsWithTitle(windows, T_ConfirmSaveAs)) > 0
       THEN Inputs(<<Ev("press_y", None, FALSE)>>)
       ELSE UNCHANGED <<log, editorVars>>
    /\ pc' = "close"
    /\ UNCHANGED <<matchVars, cacheVars, listed, listed_main, call, attempt, polls,
                   coords, result, todo, stack, posts, post>>

\* line 347: close_notepad_fully(), inside the try block.
PspClose ==
    /\ Running("process_single_post") /\ pc = "close"
    /\ Call("close_notepad_fully", "closed", "except")
    /\ UNCHANGED <<matchVars, cacheVars, winVars, coords, result, log>>
    /\ UNCHANGED ioVars

\* lines 347-350: the post is processed; a close that failed is a warning.
PspDone ==
    /\ Running("process_single_post") /\ pc = "closed"
    /\ log' = log \o <<Ev("processed", None, result), Ev("return", None, FALSE)>>
    /\ Return(None)
    /\ UNCHANGED <<matchVars, cacheVars, winVars, attempt, polls, coords, todo>>
    /\ UNCHANGED ioVars

\* lines 352-353: an exception inside the try block is printed.
PspExcept ==
    /\ Running("process_single_post") /\ pc = "except"
    /\ log' = log \o <<Ev("error", None, FALSE), Ev("return", None, FALSE)>>
    /\ Return(None)
    /\ UNCHANGED <<matchVars, cacheVars, winVars, attempt, polls, coords, todo>>
    /\ UNCHANGED ioVars

PspStep ==
    \/ ExistingStart
    \/ ExistingNext
    \/ ExistingRecheck
    \/ ExistingFallbackNext
    \/ ExistingDone
    \/ PspCloseExisting
    \/ PspLaunch
    \/ PspSkip
    \/ PspFocus
    \/ PspWrite
    \/ PspTypePath
    \/ PspConfirm
    \/ PspClose
    \/ PspDone
    \/ PspExcept

-----------------------------------------------------------------------------
(* Content Writer of the package: notepad.write_post_to_notepad with        *)
(* _wait_for_dialog, _prepare_notepad_window, _paste_content, _save_file.   *)

WriteDesktops ==
    {<<>>, <<NotepadShown>>, <<NotepadShown, SaveAsDialog>>,
     <<NotepadShown, SaveAsDialog, ConfirmDialog>>}

\* bool(gw.getWindowsWithTitle("Save As"))
SaveAsFound == Len(getWindowsWithTitle(windows, T_SaveAs)) > 0

\* A step of the function itself: nothing is called, nothing returns.
Stay(next) ==
    /\ pc' = next
    /\ UNCHANGED <<call, result, stack>>

\* The step raised.
Fail(events) ==
    /\ log' = log \o events \o <<Ev("raise", None, FALSE)>>
    /\ Raise

\* write_post_to_notepad line 192 and _save_file line 185:
\* _wait_for_dialog("Save As", 2.0, wait_for_appear=False), one iteration.
WriteWaitGone ==
    /\ Running("write_post_to_notepad") /\ pc \in {"start", "wait_closed"}
    /\ polls < VerifyPolls
    /\ log' = Append(log, Ev("save_as", None, SaveAsFound))
    /\ IF SaveAsFound
       THEN /\ polls' = polls + 1
            /\ Stay(pc)
       ELSE /\ polls' = 0
            /\ Stay(IF pc = "start" THEN "prepare1" ELSE "prepare3")
    /\ UNCHANGED <<matchVars, cacheVars, winVars, attempt, coords, todo>>
    /\ UNCHANGED ioVars

\* _wait_for_dialog lines 45 and 58: the wait for the dialog to close timed
\* out; the writer goes on.
WriteWaitGoneTimeout ==
    /\ Running("write_post_to_notepad") /\ pc \in {"start", "wait_closed"}
    /\ polls >= VerifyPolls
    /\ polls' = 0
    /\ Stay(IF pc = "start" THEN "prepare1" ELSE "prepare3")
    /\ UNCHANGED <<matchVars, cacheVars, winVars, attempt, coords, todo, log>>
    /\ UNCHANGED ioVars

\* _prepare_notepad_window (lines 139-143) with _activate_and_click_center.
WritePrepare ==
    /\ Running("write_post_to_notepad") /\ pc \in {"prepare1", "prepare2", "prepare3"}
    /\ LET ws == get_notepad_windows(windows)
           next == IF pc = "prepare1" THEN "new"
                   ELSE IF pc = "prepare2" THEN "paste" ELSE "close_tab"
       IN  IF Len(ws) > 0
           THEN \E activated \in BOOLEAN :
                   IF activated
                   THEN /\ log' = log \o <<Listed(ws), Ev("activate", None, TRUE),
                                           Ev("click_center", None, FALSE)>>
                        /\ Stay(next)
                   ELSE Fail(<<Listed(ws), Ev("activate", None, FALSE)>>)
           ELSE /\ log' = Append(log, Listed(ws))
                /\ Stay(next)
    /\ UNCHANGED <<matchVars, cacheVars, winVars, attempt, polls, coords, todo>>
    /\ UNCHANGED ioVars

\* line 195: pyautogui.hotkey('ctrl', 'n')
WriteNew ==
    /\ Running("write_post_to_notepad") /\ pc = "new"
    /\ Inputs(<<Ev("ctrl_n", None, FALSE)>>)
    /\ Stay("prepare2")
    /\ UNCHANGED <<matchVars, cacheVars, listed, listed_main, attempt, polls, coords,
                   todo, posts, post>>

\* lines 199-200 with _paste_content (146-156), then _save_file line 161.
WritePasteAndSave ==
    /\ Running("write_post_to_notepad") /\ pc = "paste"
    /\ \E shown \in SaveAnswers :
          Inputs(<<Ev("copy_content", Content(post), FALSE), Ev("ctrl_a", None, FALSE),
                   Ev("delete", None, FALSE), Ev("ctrl_v", None, FALSE),
                   Ev("ctrl_s", None, shown)>>)
    /\ polls' = 0
    /\ Stay("wait_dialog")
    /\ UNCHANGED <<matchVars, cacheVars, listed, listed_main, attempt, coords, todo,
                   posts, post>>

\* _save_file line 164: _wait_for_dialog("Save As", 3, wait_for_appear=True),
\* one iteration; the dialog found is activated.
WriteWaitDialog ==
    /\ Running("write_post_to_notepad") /\ pc = "wait_dialog"
    /\ polls < VerifyPolls
    /\ IF SaveAsFound
       THEN \E activated \in BOOLEAN :
               IF activated
               THEN /\ log' = log \o <<Ev("save_as", None, TRUE), Ev("activate", None, TRUE)>>
                    /\ Stay("fill")
                    /\ UNCHANGED polls
               ELSE /\ Fail(<<Ev("save_as", None, TRUE), Ev("activate", None, FALSE)>>)
                    /\ UNCHANGED polls
       ELSE /\ log' = Append(log, Ev("save_as", None, FALSE))
            /\ polls' = polls + 1
            /\ Stay(pc)
    /\ UNCHANGED <<matchVars, cacheVars, winVars, attempt, coords, todo>>
    /\ UNCHANGED ioVars

\* _save_file lines 164-165 and write_post_to_notepad lines 205-207: the
\* dialog did not appear; warn and return.
WriteNoDialog ==
    /\ Running("write_post_to_notepad") /\ pc = "wait_dialog"
    /\ polls >= VerifyPolls
    /\ log' = log \o <<Ev("warning", None, FALSE), Ev("return", None, FALSE)>>
    /\ Return(None)
    /\ UNCHANGED <<matchVars, cacheVars, winVars, attempt, polls, coords, todo>>
    /\ UNCHANGED ioVars

\* _save_file lines 167-174: select the path field, paste the path, Enter.
WriteFill ==
    /\ Running("write_post_to_notepad") /\ pc = "fill"
    /\ Inputs(<<Ev("ctrl_a", None, FALSE), Ev("copy_path", FilePath(PROJECT_PATH, post), FALSE),
                Ev("ctrl_v", None, FALSE), Ev("press_enter", None, FALSE)>>)
    /\ Stay("confirm")
    /\ UNCHANGED <<matchVars, cacheVars, listed, listed_main, attempt, polls, coords,
                   todo, posts, post>>

WriteConfirm_NoAnswer ==
    /\ Running("write_post_to_notepad") /\ pc = "confirm"
    /\ Stay("wait_closed")
    /\ polls' = 0
    /\ UNCHANGED <<matchVars, cacheVars, winVars, attempt, coords, todo, log, ioVars>>

\* _save_file lines 177-182: accept the overwrite confirmation, if there.
WriteConfirm ==
    /\ Running("write_post_to_notepad") /\ pc = "confirm"
    /\ IF Len(getWindowsWithTitle(windows, T_ConfirmSaveAs)) > 0
       THEN \E activated \in BOOLEAN :
               IF activated
               THEN /\ Inputs(<<Ev("activate", None, TRUE), Ev("press_y", None, FALSE)>>)
                    /\ Stay("wait_closed")
               ELSE /\ Fail(<<Ev("activate", None, FALSE)>>)
                    /\ UNCHANGED editorVars
       ELSE /\ UNCHANGED <<log, editorVars>>
            /\ Stay("wait_closed")
    /\ polls' = 0
    /\ UNCHANGED <<matchVars, cacheVars, listed, listed_main, attempt, coords, todo,
                   posts, post>>

\* lines 213-216: close the tab, then close_notepad().
WriteCloseTab ==
    /\ Running("write_post_to_notepad") /\ pc = "close_tab"
    /\ Inputs(<<Ev("ctrl_w", None, FALSE)>>)
    /\ Call("close_notepad", "closed", "")
    /\ UNCHANGED <<matchVars, cacheVars, listed, listed_main, coords, result, posts, post>>

\* line 216: close_notepad() returned; the function ends.
WriteDone ==
    /\ Running("write_post_to_notepad") /\ pc = "closed"
    /\ log' = Append(log, Ev("return", None, FALSE))
    /\ Return(None)
    /\ UNCHANGED <<matchVars, cacheVars, winVars, attempt, polls, coords, todo>>
    /\ UNCHANGED ioVars

WriteStep ==
    \/ WriteWaitGone
    \/ WriteWaitGoneTimeout
    \/ WritePrepare
    \/ WriteNew
    \/ WritePasteAndSave
    \/ WriteWaitDialog
    \/ WriteNoDialog
    \/ WriteFill
    \/ WriteConfirm
    \/ WriteCloseTab
    \/ WriteDone

-----------------------------------------------------------------------------
(* SpecWrite: one post written by the package's writer or processed by the  *)
(* script.  The editor answers the inputs it is sent: its Save As dialog    *)
(* opens or not, its window opens after a double-click and closes after a   *)
(* close request, in time for the program's next look or not.               *)

ColourTemplate == [w |-> 3, h |-> 3, ch |-> 3, score |-> 0, loc |-> <<0, 1>>]

InitWrite ==
    /\ templates = <<ColourTemplate>>
    /\ screen = DefaultScreen
    /\ mres = NotCalled
    /\ fres = NotCalled
    /\ icon_cache = None
    /\ cacheOps = <<>>
    /\ windows \in WriteDesktops
    /\ listed = NotCalled
    /\ listed_main = NotCalled
    /\ call \in {"write_post_to_notepad", "process_single_post"}
    /\ pc = "start"
    /\ attempt = 0
    /\ polls = 0
    /\ coords = None
    /\ result = None
    /\ todo = <<>>
    /\ stack = <<>>
    /\ posts = <<>>
    /\ post \in PostPool
    /\ clipboard = None
    /\ doc = EmptyControl
    /\ field = EmptyControl
    /\ files \in {<<>>} \cup {FilePath(PROJECT_PATH, post) :> Content(p) : p \in PostPool}
    /\ log = <<Ev("enter", None, files # <<>>)>>

\* The last position of one of the events es in the log; 0 if none.
LastPos(es) ==
    LET ps == {i \in 1..Len(log) : log[i].e \in es}
    IN  IF ps = {} THEN 0 ELSE CHOOSE i \in ps : \A j \in ps : j <= i

\* The last request the program made of the editor's window to close.
LastCloseRequest ==
    LET ps == {i \in 1..Len(log) : \/ log[i].e = "alt_f4"
                                   \/ log[i].e = "close" /\ log[i].flag}
    IN  IF ps = {} THEN 0 ELSE CHOOSE i \in ps : \A j \in ps : j <= i

\* The editor's window opens: the icon was double-clicked.
AppOpens ==
    /\ pc \notin {"done", "raised"}
    /\ ~InSeq(NotepadShown, windows)
    /\ LastPos({"double_click"}) > LastCloseRequest
    /\ windows' = windows \o <<NotepadShown>>
    /\ doc' = EmptyControl
    /\ UNCHANGED <<matchVars, cacheVars, listed, listed_main, runVars, posts, post,
                   clipboard, field, files>>

\* The editor's window closes: it was asked to, and no dialog holds it.
AppCloses ==
    /\ pc \notin {"done", "raised"}
    /\ InSeq(NotepadShown, windows)
    /\ ~InSeq(SaveAsDialog, windows) /\ ~InSeq(ConfirmDialog, windows)
    /\ LastCloseRequest > LastPos({"double_click"})
    /\ windows' = Without(windows, NotepadShown)
    /\ UNCHANGED <<matchVars, cacheVars, listed, listed_main, runVars, ioVars>>

NextWrite ==
    \/ WriteStep
    \/ PspStep
    \/ CloseStart \/ CloseNext \/ CloseCheck
    \/ MainFind \/ MainGiveUp \/ MainValidate \/ MainValidateTimeout
    \/ FullyStart \/ FullyCloseNext \/ FullyPoll \/ FullyRecheck
    \/ FullyAggressiveNext \/ FullyFinal
    \/ AppOpens \/ AppCloses

SpecWrite == InitWrite /\ [][NextWrite]_vars

-----------------------------------------------------------------------------
(* The whole run of the script: main with setup_environment,                *)
(* load_templates, fetch_posts and the loop over the fetched posts.         *)
(* The editor answers as in SpecWrite.  Of the posts already finished the   *)
(* history keeps only that they were started, in their order.               *)

\* The template directory: absent, or a list of .png files of which
\* cv2.imread reads some (a template) and not others (None).
MissingDirectory == [is_dir |-> FALSE, png |-> <<>>]
TemplateDirs ==
    {MissingDirectory} \cup
    {[is_dir |-> TRUE, png |-> fs] : fs \in SeqsUpTo(LoadedPool \cup {None}, MaxTemplates)}

\* load_templates: [] for a missing directory, else the images that loaded.
load_templates(directory) ==
    IF ~directory.is_dir THEN <<>>
    ELSE SelectSeq(directory.png, LAMBDA t : t # None)

\* What requests.get meets: no connection, an error status, or 200; the
\* body of a response is a JSON list of posts.
MaxPosts == 2
MainPosts == {p \in PostPool : p.title = <<"T">>}
Responses ==
    {[error |-> "connection", json |-> <<>>]} \cup
    {[error |-> e, json |-> j] : e \in {"", "http"}, j \in SeqsUpTo(MainPosts, MaxPosts)}

\* fetch_posts: the JSON of a 2xx response; a RequestException from
\* requests.get or raise_for_status is printed and None returned.
fetch_posts_Unchecked(response) == response.json
fetch_posts(response) ==
    IF response.error # "" THEN None ELSE response.json

\* posts[:10]
LOOP_LIMIT == 10
FirstPosts(p) == SubSeq(p, 1, IF Len(p) < LOOP_LIMIT THEN Len(p) ELSE LOOP_LIMIT)

\* The events of the run itself, kept when a post is started.
RunEvents == {"enter", "mkdir", "load", "exit_no_templates", "fetch", "exit_api",
              "process"}
StartOf(p) == SelectSeq(log, LAMBDA ev : ev.e \in RunEvents) \o <<Ev("process", <<p.id>>, FALSE)>>

InitMain ==
    /\ templates = <<>>
    /\ screen = DefaultScreen
    /\ mres = NotCalled
    /\ fres = NotCalled
    /\ icon_cache = None
    /\ cacheOps = <<>>
    /\ windows \in {<<>>, <<NotepadShown>>}
    /\ listed = NotCalled
    /\ listed_main = NotCalled
    /\ call = "main"
    /\ pc = "start"
    /\ attempt = 0
    /\ polls = 0
    /\ coords = None
    /\ result = None
    /\ todo = <<>>
    /\ stack = <<>>
    /\ log = <<Ev("enter", None, FALSE)>>
    /\ NoIO

\* main lines 357-362: create the output directory, load the templates and
\* leave if there are none.
RunSetup ==
    /\ Running("main") /\ pc = "start"
    /\ \E directory \in TemplateDirs :
          LET all_templates == load_templates(directory)
          IN  /\ templates' = all_templates
              /\ IF all_templates = <<>>
                 THEN /\ log' = log \o <<Ev("mkdir", None, FALSE),
                                         Ev("load", <<Len(all_templates)>>, directory.is_dir),
                                         Ev("exit_no_templates", None, FALSE),
                                         Ev("return", None, FALSE)>>
                      /\ Return(None)
                 ELSE /\ log' = log \o <<Ev("mkdir", None, FALSE),
                                         Ev("load", <<Len(all_templates)>>, directory.is_dir)>>
                      /\ pc' = "fetch"
                      /\ UNCHANGED <<call, result, stack>>
    /\ UNCHANGED <<screen, mres, fres, cacheVars, winVars, attempt, polls, coords, todo>>
    /\ UNCHANGED ioVars

\* lines 364-370: fetch the posts and leave if there are none.
RunFetch ==
    /\ Running("main") /\ pc = "fetch"
    /\ \E response \in Responses :
          LET fetched == fetch_posts(response)
          IN  IF fetched = <<>>
              THEN /\ log' = log \o <<Ev("fetch", response.json, response.error = ""),
                                      Ev("exit_api", None, FALSE),
                                      Ev("return", None, FALSE)>>
                   /\ Return(None)
                   /\ UNCHANGED posts
              ELSE /\ log' = Append(log, Ev("fetch", response.json, response.error = ""))
                   /\ posts' = FirstPosts(fetched)
                   /\ pc' = "loop"
                   /\ UNCHANGED <<call, result, stack>>
    /\ UNCHANGED <<matchVars, cacheVars, winVars, attempt, polls, coords, todo>>
    /\ UNCHANGED <<post, clipboard, doc, field, files>>

\* lines 372-373: the next post of the loop.
RunNextPost ==
    /\ Running("main") /\ pc = "loop" /\ posts # <<>>
    /\ post' = Head(posts)
    /\ posts' = Tail(posts)
    /\ log' = StartOf(Head(posts))
    /\ Call("process_single_post", "loop", "")
    /\ UNCHANGED <<matchVars, cacheVars, winVars, coords, result>>
    /\ UNCHANGED <<clipboard, doc, field, files>>

\* line 373: the loop is over, main returns.
RunEnd ==
    /\ Running("main") /\ pc = "loop" /\ posts = <<>>
    /\ log' = Append(log, Ev("return", None, FALSE))
    /\ Return(None)
    /\ UNCHANGED <<matchVars, cacheVars, winVars, attempt, polls, coords, todo>>
    /\ UNCHANGED ioVars

RunStep == RunSetup \/ RunFetch \/ RunNextPost \/ RunEnd

ProgramStep ==
    \/ RunStep
    \/ PspStep
    \/ MainFind \/ MainGiveUp \/ MainValidate \/ MainValidateTimeout
    \/ FullyStart \/ FullyCloseNext \/ FullyPoll \/ FullyRecheck
    \/ FullyAggressiveNext \/ FullyFinal

NextMain == ProgramStep \/ AppOpens \/ AppCloses

SpecMain == InitMain /\ [][NextMain]_vars

\* The function the program was started in.
Outer == IF stack = <<>> THEN call ELSE stack[Len(stack)].f

\* The actions that follow the Save As dialog in a write.
AfterDialog == {"copy_path", "type_path", "press_enter", "press_y", "ctrl_w", "close", "alt_f4"}

\* No action that belongs after the dialog, and no exception, follows the
\* save command unless the program saw the dialog in between; a writer that
\* returned without seeing it has warned.
AbortsWithoutDialog ==
    \A s \in Positions("ctrl_s") :
        LET seen(i) == \E j \in (s + 1)..(i - 1) : log[j].e = "save_as" /\ log[j].flag
        IN  /\ \A i \in (s + 1)..Len(log) :
                   log[i].e \in AfterDialog \cup {"raise"} => seen(i)
            /\ (pc = "done" /\ ~seen(Len(log) + 1)) => Positions("warning") # {}

\* C10: when no Save As dialog is observed after the save command, the write
\* is aborted: no path is pasted or typed, no confirm key, overwrite answer,
\* close-tab or window close follows, nothing is raised, and the writer
\* returns with a warning.
C10_NoDialogAborts == AbortsWithoutDialog

\* The same statement for notepad.write_post_to_notepad.
Write_NoDialogAborts == Outer = "write_post_to_notepad" => AbortsWithoutDialog

\* A write of the package that was aborted for want of the dialog.
Write_AbortedWitness ==
    /\ Outer = "write_post_to_notepad" /\ pc = "done"
    /\ Positions("warning") # {}

-----------------------------------------------------------------------------
(* Claims about launch (SpecLaunch, FairLaunch).  The log starts with the   *)
(* cache the call found at entry.                                           *)

EntryCache == log[1].xy

\* C6: in launch_notepad a cached coordinate is tried first, without any
\* search; when its verification ends without a visible Notepad window the
\* cache is invalidated before the first fresh attempt; and there are at
\* most 3 fresh (use_cache=False) find_icon attempts.
C6_CachedFirstThenThreeFresh ==
    call = "launch_notepad" =>
        /\ (EntryCache # None /\ Len(log) >= 2) =>
               log[2] = Ev("find_cached", EntryCache, FALSE)
        /\ (EntryCache # None /\ Len(log) >= 3) =>
               /\ log[3].e = "verify" /\ log[3].xy = EntryCache
               /\ \A i \in Positions("find_fresh") : i > 3
        /\ (EntryCache # None /\ Len(log) >= 3 /\ ~log[3].flag) =>
               /\ log[4].e = "invalidate"
               /\ \A i \in Positions("find_fresh") : i > 4
        /\ (log[Len(log)].e = "invalidate") => icon_cache = None
        /\ Cardinality(Positions("find_fresh")) <= 3

\* C6 witness: the cached coordinate failed its verification, the cache was
\* invalidated, three fresh attempts followed and the launch gave up.
C6_Witness ==
    /\ call = "launch_notepad" /\ pc = "done" /\ result = FALSE
    /\ EntryCache # None
    /\ Positions("invalidate") = {4}
    /\ Cardinality(Positions("find_fresh")) = 3

\* C7: launch never raises; it returns a boolean after at most 3 attempts
\* (after the cached one, in launch_notepad) and at most VerifyPolls polls
\* per verification.
C7_LaunchBoundedNoRaise ==
    /\ pc # "raised"
    /\ attempt <= 3
    /\ polls <= VerifyPolls
    /\ pc = "done" => result \in BOOLEAN

\* Every launch ends: it returns or it raises.
Launch_Ends == <>(pc \in {"done", "raised"})

\* launch_notepad itself always returns a boolean.
LaunchNotepad_Returns ==
    (call = "launch_notepad") ~> (pc = "done" /\ result \in BOOLEAN)

\* C8: when launch_notepad returns True, the cache holds the coordinate of
\* the attempt whose verification succeeded.
C8_SuccessCachesUsedCoords ==
    (call = "launch_notepad" /\ pc = "done" /\ result = TRUE) =>
        /\ coords # None
        /\ log[Len(log) - 1] = Ev("verify", coords, TRUE)
        /\ icon_cache = coords

\* C8 witness: the cached coordinate failed, a fresh match at another point
\* succeeded.
C8_Witness ==
    /\ call = "launch_notepad" /\ pc = "done" /\ result = TRUE
    /\ EntryCache # None
    /\ coords # EntryCache
    /\ Positions("find_fresh") # {}

\* A launch that succeeds on the cached coordinate.
C8_WitnessCached ==
    /\ call = "launch_notepad" /\ pc = "done" /\ result = TRUE
    /\ Positions("find_fresh") = {}
    /\ log[2] = Ev("find_cached", EntryCache, FALSE)

-----------------------------------------------------------------------------
(* Claims about the double-click and the cache in Ensure OPEN (SpecLaunch). *)

FindEvents == {"find_cached", "find_fresh", "find"}

\* Every find that obtained a coordinate is followed at once by a
\* double-click at it, and a launch that succeeded issued a double-click.
ClicksBeforeVerify ==
    /\ \A i \in 1..Len(log) :
           (log[i].e \in FindEvents /\ log[i].xy # None) =>
               /\ i < Len(log)
               /\ log[i + 1] = Ev("double_click", log[i].xy, FALSE)
    /\ (pc = "done" /\ result = TRUE) => Positions("double_click") # {}

\* C15: in Ensure OPEN every attempt that obtains a coordinate, cached or
\* freshly matched, double-clicks at it before its verification poll starts,
\* and launch never reports success in a call that issued no double-click.
C15_ClickBeforeVerify ==
    call \in {"launch_notepad", "launch_and_validate_notepad"} => ClicksBeforeVerify

\* The same statement for main.launch_and_validate_notepad.
Main_ClickBeforeVerify == call = "launch_and_validate_notepad" => ClicksBeforeVerify

\* C16: whenever a verification poll for a coordinate ended without a
\* visible Notepad window, the cache does not hold that coordinate until the
\* next find; whenever launch_notepad returns False the cache is empty.
C16_FailureClearsCache ==
    call = "launch_notepad" =>
        /\ \A i \in Positions("verify") :
               (/\ ~log[i].flag
                /\ \A j \in (i + 1)..Len(log) : log[j].e \notin FindEvents)
               => icon_cache # log[i].xy
        /\ (pc = "done" /\ result = FALSE) => icon_cache = None

\* The part of C16 that launch_notepad keeps: a cached coordinate whose
\* verification failed is invalidated.
Launch_CachedFailureClearsCache ==
    call = "launch_notepad" =>
        \A i \in Positions("verify") :
            (/\ ~log[i].flag
             /\ log[i - 1].e = "find_cached"
             /\ \A j \in (i + 1)..Len(log) : log[j].e \notin FindEvents)
            => icon_cache = None

-----------------------------------------------------------------------------
(* Claims about the threshold of one call (SpecMatch), the title test      *)
(* (SpecWin) and the escalation of Ensure CLOSED (SpecClose).               *)

\* C17: a single call accepts a match only at the primary threshold: the
\* label find_icon returns scores at least MATCHING_THRESHOLD and was
\* accepted at that threshold, so a score between the lowered and the
\* primary threshold is not found; likewise for the script's matcher.
C17_PrimaryThresholdOnly ==
    /\ (fres.called /\ fres.searched /\ fres.coords # None) =>
           /\ fres.threshold = MATCHING_THRESHOLD
           /\ templates[fres.idx].score >= MATCHING_THRESHOLD
    /\ (mres.called /\ mres.coords # None) =>
           templates[mres.idx].score >= MATCH_THRESHOLD

\* The same statement for main.find_icon_with_multiple_templates.
Main_PrimaryThresholdOnly ==
    (mres.called /\ mres.coords # None) => templates[mres.idx].score >= MATCH_THRESHOLD

\* The title equals the filter or ends with " - <filter>", letter case aside.
MatchesFilter(t) ==
    \/ lower(t) = lower(T_Notepad)
    \/ endswith(lower(t), lower(<<" ", "-", " ">> \o T_Notepad))

AllMatchFilter(ws) == \A i \in 1..Len(ws) : MatchesFilter(ws[i].title)

\* C18: every window get_notepad_windows returns has a title that equals
\* "Notepad" or ends with " - Notepad"; a title that only contains the term
\* elsewhere ("My Notepad notes") is never returned.
C18_ExactOrSuffixOnly ==
    /\ listed.called => AllMatchFilter(listed.ws)
    /\ listed_main.called => AllMatchFilter(listed_main.ws)

\* The same statement for notepad.get_notepad_windows.
Pkg_ExactOrSuffixOnly == listed.called => AllMatchFilter(listed.ws)

\* The escalation was announced and every forced close after it was
\* followed by the "don't save" answer.
Escalated ==
    \E a \in Positions("aggressive") :
        \A i \in Positions("alt_f4") :
            i > a => (i < Len(log) /\ log[i + 1].e = "press_n")

\* C19: Ensure CLOSED returns failure only after the escalation was tried:
\* the forced-close input followed by the "don't save" answer for each
\* window still visible after the close requests and the re-check.
C19_EscalatesBeforeFailure ==
    (call \in {"close_notepad", "close_notepad_fully"} /\ pc = "done" /\ result = FALSE)
        => Escalated

\* The same statement for main.close_notepad_fully.
Fully_EscalatesBeforeFailure ==
    (call = "close_notepad_fully" /\ pc = "done" /\ result = FALSE) => Escalated

\* close_notepad_fully escalated, a window was force-closed, and it failed.
Fully_EscalatedWitness ==
    /\ call = "close_notepad_fully" /\ pc = "done" /\ result = FALSE
    /\ Positions("alt_f4") # {}

-----------------------------------------------------------------------------
(* Claims about the write (SpecWrite).                                      *)

\* What the clipboard holds when the input at position i is issued: the
\* text of the last copy before it.
ClipboardAt(i) ==
    LET ps == {j \in 1..(i - 1) : log[j].e \in {"copy_content", "copy_path"}}
    IN  IF ps = {} THEN None ELSE log[CHOOSE j \in ps : \A k \in ps : k <= j].xy

\* The text and the path a write of post p is to produce.
ExpectedText(p) == <<"T", "i", "t", "l", "e", ":", " ">> \o p.title \o <<"\n", "\n">> \o p.body
ExpectedName(p) ==
    IF p.id = 42 THEN <<"p", "o", "s", "t", "_", "4", "2", ".", "t", "x", "t">>
    ELSE <<"p", "o", "s", "t", "_", "7", ".", "t", "x", "t">>
ExpectedPath(p) == PROJECT_PATH \o <<"/">> \o ExpectedName(p)

\* New document, select-all, delete and the paste of the content precede
\* every save command, in that order.
ContentBeforeSave ==
    \A s \in Positions("ctrl_s") :
        \E n \in Positions("ctrl_n"), a \in Positions("ctrl_a"),
           d \in Positions("delete"), v \in Positions("ctrl_v") :
            /\ n < a /\ a < d /\ d < v /\ v < s
            /\ ClipboardAt(v) = ExpectedText(post)

\* Every confirm of a path follows a select-all and a paste of the path,
\* made after the save command; no path is typed.
PathPasted ==
    /\ \A i \in Positions("press_enter") :
          \E s \in Positions("ctrl_s"), a \in Positions("ctrl_a"), v \in Positions("ctrl_v") :
              /\ s < a /\ a < v /\ v < i
              /\ ClipboardAt(v) = ExpectedPath(post)
    /\ Positions("type_path") = {}

\* C20: in every write the inputs come in the order new document,
\* select-all, delete, content paste, save command, then select-all in the
\* path field, path paste, confirm; content and path are both pasted from
\* the clipboard, which holds the content at the content paste and the path
\* at the path paste; the save command never precedes the content paste.
C20_OrderAndClipboard ==
    Outer \in {"write_post_to_notepad", "process_single_post"} =>
        ContentBeforeSave /\ PathPasted

\* The same statement for notepad.write_post_to_notepad.
Write_OrderAndClipboard == Outer = "write_post_to_notepad" => ContentBeforeSave /\ PathPasted

\* The part of C20 that main.process_single_post keeps.
Psp_ContentBeforeSave == Outer = "process_single_post" => ContentBeforeSave

\* A write of the package that pasted and confirmed the path.
Write_PathPastedWitness ==
    /\ Outer = "write_post_to_notepad" /\ pc = "done"
    /\ Positions("press_enter") # {}

\* The write ran its whole course: the save command was answered with the
\* Save As dialog and the writer returned without error or warning.
Completed ==
    /\ pc = "done"
    /\ \E s \in Positions("ctrl_s") : log[s].flag
    /\ Positions("raise") = {} /\ Positions("error") = {} /\ Positions("warning") = {}

\* The Ensure CLOSED that ends the write returned True: the window closed
\* within its wait.
ClosedInTime ==
    IF Outer = "process_single_post"
    THEN \E i \in Positions("processed") : log[i].flag
    ELSE Len(log) >= 2 /\ log[Len(log) - 1] = Ev("return", None, TRUE)

\* C12: a post whose icon is matched, whose window becomes visible and whose
\* Save As dialog appears is saved to <output dir>/post_<id>.txt with the
\* text "Title: <title>\n\n<body>", pasted as such, and counts as processed;
\* afterwards, the window having closed when asked, no Notepad window is
\* visible.
C12_SavesPostFile ==
    (Outer \in {"write_post_to_notepad", "process_single_post"} /\ Completed) =>
        /\ ExpectedPath(post) \in DOMAIN files
        /\ files[ExpectedPath(post)] = ExpectedText(post)
        /\ \E i \in Positions("copy_content") : log[i].xy = ExpectedText(post)
        /\ Outer = "process_single_post" => Positions("processed") # {}
        /\ ClosedInTime => ~AnyVisible(get_notepad_windows(windows))

\* A completed write by the package, and one by the script, of a new file.
C12_Witness ==
    /\ Outer = "write_post_to_notepad" /\ Completed /\ ClosedInTime /\ ~log[1].flag
    /\ post.id = 42

C12_WitnessScript ==
    /\ Outer = "process_single_post" /\ Completed /\ ClosedInTime /\ ~log[1].flag
    /\ Positions("double_click") # {}

\* C13: a save to a path where a file of an earlier write exists meets the
\* "Confirm Save As" dialog and answers it with accept, never with cancel;
\* afterwards exactly one file exists at the path and holds the text of
\* this write.
C13_OverwriteKeepsLastWrite ==
    (/\ Outer \in {"write_post_to_notepad", "process_single_post"}
     /\ Completed /\ log[1].flag) =>
        /\ \E e \in Positions("press_enter"), y \in Positions("press_y") :
              /\ e < y
              /\ \A i \in (e + 1)..Len(log) : log[i].e # "press_n" \/ i > y
        /\ DOMAIN files = {ExpectedPath(post)}
        /\ files[ExpectedPath(post)] = ExpectedText(post)

\* A second write that replaced a different text.
C13_Witness ==
    /\ Outer = "write_post_to_notepad" /\ Completed /\ log[1].flag
    /\ Positions("press_y") # {}
    /\ post.body = <<"C">>

C13_WitnessScript ==
    /\ Outer = "process_single_post" /\ Completed /\ log[1].flag
    /\ Positions("press_y") # {}

-----------------------------------------------------------------------------
(* Claims about the whole run (SpecMain).                                   *)

\* Window, mouse, keyboard and clipboard actions, as the history names them.
WriteKeys == {"ctrl_n", "ctrl_w", "ctrl_a", "delete", "copy_content", "copy_path",
              "ctrl_v", "ctrl_s", "type_path", "press_enter", "press_y"}
UIActions == WriteKeys \cup {"list", "verify", "activate", "click_center", "double_click",
                             "close", "alt_f4", "press_n", "find"}
NoUIAction == post = None /\ \A i \in 1..Len(log) : log[i].e \notin UIActions

\* The run has loaded its templates and there are none.
NoTemplates_Loaded == pc # "start" /\ templates = <<>>

\* The fetch met no connection or an error status, or its list is empty.
FetchFailedOrEmpty == \E i \in Positions("fetch") : ~log[i].flag \/ log[i].xy = <<>>

\* C14: with no template directory or no template in it main returns
\* without fetching and without any UI action; with a failed fetch (no
\* connection, error status) or an empty list main returns without any UI
\* action; no exception is raised in either case.
C14_AbsenceEndsRun ==
    /\ NoTemplates_Loaded => pc = "done" /\ Positions("fetch") = {} /\ NoUIAction
    /\ FetchFailedOrEmpty => pc = "done" /\ NoUIAction

\* An error status whose body is a list of posts ended the run.
C14_Witness ==
    /\ log[1].e = "enter" /\ pc = "done"
    /\ \E i \in Positions("fetch") : ~log[i].flag /\ log[i].xy # <<>>

\* The directory is missing; it holds only files that do not load; the
\* fetched list is empty.
C14_WitnessNoDirectory ==
    /\ log[1].e = "enter" /\ pc = "done"
    /\ \E i \in Positions("load") : ~log[i].flag

C14_WitnessUnreadable ==
    /\ log[1].e = "enter" /\ pc = "done" /\ templates = <<>>
    /\ \E i \in Positions("load") : log[i].flag

C14_WitnessEmptyList ==
    /\ log[1].e = "enter" /\ pc = "done"
    /\ \E i \in Positions("fetch") : log[i].flag /\ log[i].xy = <<>>

\* The ids of the posts started so far, and of the posts the run is to
\* process.
StartedIds == [i \in 1..Len(SelectSeq(log, LAMBDA ev : ev.e = "process")) |->
                  SelectSeq(log, LAMBDA ev : ev.e = "process")[i].xy[1]]
FetchedIds ==
    LET j == log[CHOOSE i \in Positions("fetch") : TRUE].xy
    IN  [i \in 1..Len(j) |-> j[i].id]

\* The posts are started in the order fetched, and all of them when main
\* returns.
AttemptsInOrder ==
    Positions("fetch") # {} /\ ~FetchFailedOrEmpty =>
        /\ Len(StartedIds) <= Len(FetchedIds)
        /\ StartedIds = SubSeq(FetchedIds, 1, Len(StartedIds))
        /\ pc = "done" => StartedIds = FetchedIds

\* A post skipped for its launch had no write keystroke.
SkipHasNoWrite ==
    Positions("skip") # {} => \A i \in 1..Len(log) : log[i].e \notin WriteKeys

\* C11: whatever fails for a post, no exception leaves the loop over the
\* posts, every post is started, in order, and a post whose launch failed is
\* skipped with no write keystroke.
C11_LoopNeverThrows == pc # "raised" /\ AttemptsInOrder /\ SkipHasNoWrite

\* The parts of C11 that hold: the order, and the skip.
Main_AttemptsInOrder == pc # "raised" => AttemptsInOrder
Main_SkipHasNoWrite == Positions("process") # {} => SkipHasNoWrite

\* A failure inside the try block of process_single_post does not end the
\* run: the next post is started after it.
Main_ErrorThenNextWitness ==
    /\ Len(StartedIds) = 2
    /\ clipboard # None /\ files = <<>>

\* An exception left the loop with a post still to process.
Main_RaisedWitness == Positions("process") # {} /\ pc = "raised" /\ posts # <<>>

-----------------------------------------------------------------------------
(* Claims about find_icon and the cache (SpecCache).                        *)

\* What one find_icon call did to the cache: fres changes exactly at a call.
CachedReadKeepsCache ==
    (fres'.use_cache /\ fres'.cacheBefore # None) =>
        /\ fres'.coords = fres'.cacheBefore
        /\ ~fres'.searched
        /\ icon_cache' = icon_cache
FreshReadSearches == ~fres'.use_cache => fres'.searched
MissKeepsCache == fres'.coords = None => icon_cache' = icon_cache

\* C22: find_icon with use_cache and a non-empty cache returns the cached
\* coordinate without matching and leaves the cache as it was; find_icon
\* without use_cache always matches; a find_icon that returns None leaves
\* the cache as it was.
C22_CacheReadAndMiss ==
    [][fres' # fres =>
          /\ fres'.cacheBefore = icon_cache
          /\ CachedReadKeepsCache
          /\ FreshReadSearches
          /\ MissKeepsCache]_vars

\* A cached read: the cache was full and is the answer.
C22_Witness ==
    /\ fres.called /\ fres.use_cache /\ ~fres.searched
    /\ fres.cacheBefore # None /\ fres.coords = fres.cacheBefore
    /\ icon_cache = fres.cacheBefore

\* A fresh read that found nothing, with the cache full: it stays full.
C22_WitnessMiss ==
    /\ fres.called /\ ~fres.use_cache /\ fres.searched
    /\ fres.cacheBefore # None /\ fres.coords = None
    /\ icon_cache = fres.cacheBefore

\* A read with use_cache and an empty cache that found nothing.
C22_WitnessEmptyMiss ==
    /\ fres.called /\ fres.use_cache /\ fres.searched
    /\ fres.cacheBefore = None /\ fres.coords = None /\ icon_cache = None

-----------------------------------------------------------------------------
(* Claims about what a successful launch has seen (SpecLaunch).             *)

LaunchFunctions == {"launch_notepad", "launch_and_validate_notepad"}

\* The launch is in a verification poll.
Polling == pc \in {"verify_first", "verify_fresh", "validate"}

\* A window the running launch function lists is visible now.
VisibleMatch ==
    LET ws == IF call = "launch_notepad" THEN get_notepad_windows(windows)
              ELSE get_notepad_windows_main(windows)
    IN  \E i \in 1..Len(ws) : ws[i].visible = TRUE

\* The step returns success; the step is one of the program.
Succeeds == pc # "done" /\ pc' = "done" /\ result' = TRUE
ProgramMoves == log' # log \/ polls' # polls \/ pc' # pc

SuccessNeedsVisibleWindow ==
    call \in LaunchFunctions =>
        /\ Succeeds => Polling /\ VisibleMatch
        /\ (Polling /\ polls = 0 /\ VisibleMatch /\ ProgramMoves) =>
              /\ Succeeds
              /\ call = "launch_notepad" => coords # None /\ icon_cache' = coords

\* C23: a launch returns success only from a verification poll that sees a
\* visible matching window; and a first poll that sees one, whoever opened
\* it, returns success, launch_notepad with the polled coordinate cached.
C23_SuccessNeedsVisibleWindow == [][SuccessNeedsVisibleWindow]_vars

\* launch_notepad succeeded on a window it did not open: it never clicked.
C23_Witness ==
    /\ call = "launch_notepad" /\ pc = "done" /\ result = TRUE
    /\ Positions("double_click") = {}
    /\ VisibleMatch /\ icon_cache = coords /\ coords # None

\* The script's launch succeeded.
C23_WitnessScript ==
    /\ call = "launch_and_validate_notepad" /\ pc = "done" /\ result = TRUE
    /\ VisibleMatch

-----------------------------------------------------------------------------
(* Claims about the order of the steps for one post (SpecWrite).            *)

\* The first position of one of the events es in the history; 0 if none.
FirstPos(es) ==
    LET ps == {i \in 1..Len(log) : log[i].e \in es}
    IN  IF ps = {} THEN 0 ELSE CHOOSE i \in ps : \A j \in ps : i <= j

\* The launch starts with its first search; close-existing has returned by
\* then.
LaunchAfterCloseExisting ==
    FirstPos({"find"}) # 0 =>
        /\ FirstPos({"return"}) # 0
        /\ FirstPos({"return"}) < FirstPos({"find"})
        /\ \A i \in 1..Len(log) :
              log[i].e \in {"close", "alt_f4", "press_n"} /\ i < FirstPos({"find"})
                  => i < FirstPos({"return"})

\* A write action comes only after a launch that returned success.
WriteAfterLaunched ==
    FirstPos(WriteKeys) # 0 =>
        \E v \in Positions("verify") : log[v].flag /\ v < FirstPos(WriteKeys)

\* After the save, the document is closed (ctrl+w) before any request to
\* close the window, and in any case before the writer ends.
TabCloseBeforeWindowClose ==
    Completed =>
        LET saved == LastPos({"press_enter", "press_y"})
        IN  /\ \E w \in Positions("ctrl_w") : saved < w
            /\ \A i \in 1..Len(log) :
                  (log[i].e \in {"close", "alt_f4"} /\ saved < i) =>
                      \E w \in Positions("ctrl_w") : saved < w /\ w < i

\* C21: for a post, close-existing returns before the launch starts, no
\* write action is issued unless the launch returned success, and after a
\* completed save the document is closed before the window is.
C21_StepsInOrder ==
    /\ Outer = "process_single_post" =>
          LaunchAfterCloseExisting /\ WriteAfterLaunched /\ TabCloseBeforeWindowClose
    /\ Outer = "write_post_to_notepad" => TabCloseBeforeWindowClose

\* The parts of C21 that hold: the order up to the write in the script, the
\* document close in the package.
Psp_CloseLaunchWrite ==
    Outer = "process_single_post" => LaunchAfterCloseExisting /\ WriteAfterLaunched
Write_TabCloseBeforeWindowClose ==
    Outer = "write_post_to_notepad" => TabCloseBeforeWindowClose

\* The script closed old windows, launched, wrote and saved.
Psp_OrderWitness ==
    /\ Outer = "process_single_post" /\ Completed
    /\ \E c \in Positions("close") : c < FirstPos({"find"})
    /\ FirstPos({"find"}) < FirstPos(WriteKeys)

\* The package saved, closed the document and asked the window to close.
Write_TabCloseWitness ==
    /\ Outer = "write_post_to_notepad" /\ Completed
    /\ \E w \in Positions("ctrl_w"), c \in Positions("close") : w < c

====
